---- MODULE Spec2Model ----
(***************************************************************************)
(* Model of the meal-plan generation core of personalize-diet-planning:    *)
(*   planner/planner_service.py      construct_funnel_pool,                *)
(*                                   generate_full_meal_plan,              *)
(*                                   _handle_fallback                      *)
(*   planner/optimization_service.py create_daily_plan_global,             *)
(*                                   create_single_meal,                   *)
(*                                   create_single_meal_resilient,         *)
(*                                   heuristic_meal_selection              *)
(*   planner/default_plans.py        get_default_plan and its templates    *)
(*                                                                         *)
(* A recipe row of the Recipe table is a record; the catalog is a set of   *)
(* row ids.  A recipe name is modelled by the set of search terms it       *)
(* contains, which is all that name__icontains observes.  Nutrient values  *)
(* are integers (kcal, grams).  A candidate pool is the set of its ids:    *)
(* every query of construct_funnel_pool filters on one meal_type, so a     *)
(* pool never holds an id twice and its order is only observed by the      *)
(* trimming step, which is modelled on sets below.                         *)
(***************************************************************************)
EXTENDS Integers, Sequences, FiniteSets, TLC

VARIABLES
    catalog,            \* ids of the rows of the Recipe table
    primary_goal,       \* user_profile['primary_goal']
    dietary_style,      \* user_profile['dietary_style']
    number_of_days,     \* user_profile['number_of_days']
    daily_targets,      \* result of calculate_nutritional_targets_from_profile
    allergies,          \* parsed allergy / dislike keywords
    pc,                 \* position inside generate_full_meal_plan
    day,                \* loop variable of the day loop
    used_recipe_ids,    \* the Used-Recipe Set
    weekly_plan,        \* sequence of the day plans stored so far
    recipe_pools,       \* pools built for the current day, by meal name
    daily_plan_result,  \* value returned by create_daily_plan_global
    solver_log,         \* solver statuses of the last create_daily_plan_global call
    solver_objects,     \* solver objects created and neither deleted nor collected
    error_message,      \* why the optimizer path was abandoned (kind, day)
    result,             \* value returned by generate_full_meal_plan
    outcome,            \* "none" | "optimizer" | "fallback": how the run returned
    max_protein_deviation_pct,
                        \* the guard argument of a direct call of the daily solver
    meal_call,          \* arguments of a direct call of a single-meal function
    level,              \* loop variable of create_single_meal_resilient
    attempts,           \* the attempts create_single_meal_resilient has made
    meal_result,        \* value returned by the single-meal function
    pool_call           \* arguments of a direct call of construct_funnel_pool

vars == << catalog, primary_goal, dietary_style, number_of_days, daily_targets,
           allergies, pc, day, used_recipe_ids, weekly_plan, recipe_pools,
           daily_plan_result, solver_log, solver_objects, error_message, result,
           outcome, max_protein_deviation_pct, meal_call, level, attempts, meal_result,
           pool_call >>

\* an optional value is a sequence of length 0 (None) or 1
NoGuard == << >>
Guard(pct) == << pct >>



(***************************************************************************)
(* Bounds of the model.                                                    *)
(***************************************************************************)
MaxDays == 2

\* STRATIFIED_LIMITS, scaled to the size of the model catalog (the source
\* values are 150/100/100 for Breakfast and 200/200/100/100/50 for
\* Lunch and Dinner): a limit below the number of rows of a tag makes the
\* Lunch and the Dinner sample differ, as they do on a large catalog.
LimitBreakfast == 1
LimitFruit == 1
LimitDrink == 1
LimitMainCourse == 1
LimitSideDish == 1
LimitSalad == 1
LimitSoup == 1
LimitDessert == 1

(***************************************************************************)
(* Program constants.                                                      *)
(***************************************************************************)
MAX_RECIPES_PER_MEAL_POOL == 500
MAX_COMBINED_POOL_SIZE == 600
MinAvailableRecipes == 6
MinRecipesInPool == 6
MinDailyRecipes == 6
MaxDailyRecipes == 8
ORCHESTRATOR_PROTEIN_PCT == 15

MealNames == << "Breakfast", "Lunch", "Dinner" >>

(***************************************************************************)
(* The Recipe table.                                                       *)
(***************************************************************************)
R(t, c, cal, pro, fat, carb, nm) ==
    [meal_type |-> t, cluster |-> c, avg_calories |-> cal, avg_protein_g |-> pro,
     avg_fat_g |-> fat, avg_carbs_g |-> carb, name |-> nm]

AllRecipes == <<
    R("Breakfast",   3, 440, 15, 20, 60, {"oatmeal", "nuts", "berries"}),  \* 1
    R("Breakfast",   0, 300, 25, 20,  6, {"scrambled", "egg"}),            \* 2
    R("Fruit",       3, 100,  0,  0, 26, {"banana"}),                      \* 3
    R("Drink",       0, 120, 10,  4, 12, {"yogurt"}),                      \* 4
    R("Main Course", 3, 640, 40, 25, 70, {"beef", "stir", "fry", "rice"}), \* 5
    R("Main Course", 3, 700, 45, 28, 76, {"pasta", "meatball", "beef"}),   \* 6
    R("Main Course", 3, 900, 65, 30, 90, {"burrito", "chicken"}),          \* 7
    R("Main Course", 3, 400, 35, 28, 10, {"salmon", "asparagus"}),         \* 8
    R("Side Dish",   3, 160,  5,  2, 28, {"quinoa"}),                      \* 9
    R("Side Dish",   3, 120,  0,  0, 28, {"sweet", "potato"}),             \* 10
    R("Salad",       3, 440, 40, 25, 14, {"salad", "chicken"}),            \* 11
    R("Soup",        0, 180, 10,  6, 20, {"chicken"}),                     \* 12
    R("Dessert",     3, 300,  5, 14, 40, {"apple"}),                       \* 13
    R("Unknown",     3, 500, 30, 20, 50, {"beef"}),                        \* 14
    R("Snack",       3, 200,  5, 10, 20, {"nuts"})                         \* 15
>>

AllIds == 1..Len(AllRecipes)

\* Catalogs the runs start from: the table above without some rows.
RemovedChoices == { {}, {13}, {1, 2}, {1, 2, 3, 4}, {9, 10, 11, 12} }

TargetChoices ==
    { [calories |-> 2000, protein_g |-> 100, fat_g |-> 50, carbs_g |-> 200],
      [calories |-> 2000, protein_g |-> 500, fat_g |-> 50, carbs_g |-> 200] }

\* The requests the runs start from: goal, dietary style and the keywords
\* of the allergies and dislikes.
ProfileChoices ==
    { [primary_goal |-> "gain_muscle", dietary_style |-> "balanced", allergies |-> {}],
      [primary_goal |-> "lose_weight", dietary_style |-> "balanced",
       allergies |-> {"chicken"}],
      [primary_goal |-> "lose_weight", dietary_style |-> "low_carb", allergies |-> {}],
      [primary_goal |-> "maintain", dietary_style |-> "balanced", allergies |-> {}] }

MealType(i) == AllRecipes[i].meal_type

\* name__icontains=term
NameContains(i, term) == term \in AllRecipes[i].name

Abs(x) == IF x < 0 THEN -x ELSE x
Min(a, b) == IF a < b THEN a ELSE b

\* sum of one nutrient column over a set of rows
RECURSIVE Total(_, _)
Total(S, col) ==
    IF S = {} THEN 0
    ELSE LET x == CHOOSE y \in S : TRUE IN AllRecipes[x][col] + Total(S \ {x}, col)

\* ids in ascending order, as a sequence
RECURSIVE SortedSeq(_)
SortedSeq(S) ==
    IF S = {} THEN << >>
    ELSE LET m == CHOOSE x \in S : \A y \in S : x <= y
         IN << m >> \o SortedSeq(S \ {m})

\* the recipe dictionary of a catalog row, as it appears in pools and plans
RecipeDict(i) == [id |-> i, meal_type |-> MealType(i)]

SeqIds(s) == { s[k].id : k \in 1..Len(s) }

SeqRange(q) == { q[k] : k \in 1..Len(q) }

(***************************************************************************)
(* planner_service.py                                                      *)
(***************************************************************************)
\* MEAL_STRUCTURES: meal_type -> required count, in key order
StructureKeys(meal_name) ==
    CASE meal_name = "Breakfast" -> << "Breakfast", "Fruit", "Drink" >>
      [] meal_name = "Lunch"     -> << "Main Course", "Side Dish", "Salad", "Soup" >>
      [] meal_name = "Dinner"    -> << "Main Course", "Side Dish", "Salad", "Soup", "Dessert" >>

StructureCount(meal_name, meal_type) ==
    IF (meal_name = "Breakfast" /\ meal_type = "Breakfast")
       \/ (meal_name \in {"Lunch", "Dinner"} /\ meal_type = "Main Course")
    THEN 1 ELSE 0

\* a meal structure dictionary: its keys in order and the count of each key
DefaultStructure ==
    [keys |-> << "Main Course", "Side Dish" >>,
     count |-> [mt \in {"Main Course", "Side Dish"} |-> 1]]

\* get_meal_structure: MEAL_STRUCTURES.get(meal_name, default)
get_meal_structure(meal_name) ==
    IF meal_name \in {"Breakfast", "Lunch", "Dinner"}
    THEN [keys |-> StructureKeys(meal_name),
          count |-> [mt \in SeqRange(StructureKeys(meal_name)) |->
                        StructureCount(meal_name, mt)]]
    ELSE DefaultStructure

\* STRATIFIED_LIMITS[meal_name].get(meal_type, 0)
StratifiedLimit(meal_name, meal_type) ==
    CASE meal_name = "Breakfast" /\ meal_type = "Breakfast" -> LimitBreakfast
      [] meal_name = "Breakfast" /\ meal_type = "Fruit" -> LimitFruit
      [] meal_name = "Breakfast" /\ meal_type = "Drink" -> LimitDrink
      [] meal_name \in {"Lunch", "Dinner"} /\ meal_type = "Main Course" -> LimitMainCourse
      [] meal_name \in {"Lunch", "Dinner"} /\ meal_type = "Side Dish" -> LimitSideDish
      [] meal_name \in {"Lunch", "Dinner"} /\ meal_type = "Salad" -> LimitSalad
      [] meal_name \in {"Lunch", "Dinner"} /\ meal_type = "Soup" -> LimitSoup
      [] meal_name = "Dinner" /\ meal_type = "Dessert" -> LimitDessert
      [] OTHER -> 0

\* map_goal_to_cluster
map_goal_to_cluster(goal, style) ==
    CASE goal = "gain_muscle" -> 3
      [] goal = "lose_weight" ->
            (CASE style = "low_carb" -> 1 [] style = "low_fat" -> 2 [] OTHER -> 3)
      [] goal = "gain_weight" -> 2
      [] goal = "maintain" ->
            (CASE style = "low_carb" -> 1 [] style = "low_fat" -> 2 [] OTHER -> 0)
      [] OTHER -> 0

\* base_queryset.filter(meal_type=...) of construct_funnel_pool: primary
\* cluster, used ids and Unknown excluded
PrimaryRows(cat, cluster, used, meal_type) ==
    { i \in cat : AllRecipes[i].cluster = cluster /\ i \notin used
                  /\ MealType(i) # "Unknown" /\ MealType(i) = meal_type }

\* expanded_qs without the exclusion of the used ids
ExpandedRowsKeepsUsed(cat, used, meal_type) ==
    { i \in cat : MealType(i) # "Unknown" /\ MealType(i) = meal_type }

\* expanded_qs: the same over all clusters
ExpandedRows(cat, used, meal_type) ==
    { i \in cat : i \notin used /\ MealType(i) # "Unknown" /\ MealType(i) = meal_type }

\* the rows the sample of one meal_type is drawn from (empty: tag skipped)
TypeRows(cat, cluster, used, meal_type) ==
    IF PrimaryRows(cat, cluster, used, meal_type) # {}
    THEN PrimaryRows(cat, cluster, used, meal_type)
    ELSE ExpandedRows(cat, used, meal_type)

\* type_qs.order_by('?')[:sample_size]: every subset of sample_size rows
TypeSamples(cat, cluster, used, meal_name, meal_type) ==
    LET rows == TypeRows(cat, cluster, used, meal_type)
        limit == StratifiedLimit(meal_name, meal_type)
        sample_size == Min(limit, Cardinality(rows))
    IN  IF limit = 0 THEN { {} }
        ELSE { s \in SUBSET rows : Cardinality(s) = sample_size }

\* STAGE 2: all the pools the stratified fetching can produce
RECURSIVE FetchedPools(_, _, _, _, _)
FetchedPools(cat, cluster, used, meal_name, k) ==
    IF k = 0 THEN { {} }
    ELSE { p \cup s : p \in FetchedPools(cat, cluster, used, meal_name, k - 1),
                      s \in TypeSamples(cat, cluster, used, meal_name,
                                        StructureKeys(meal_name)[k]) }

\* position of a meal_type in the fetch order of the meal
RECURSIVE KeyIndex(_, _, _)
KeyIndex(keys, meal_type, k) ==
    IF k > Len(keys) THEN k
    ELSE IF keys[k] = meal_type THEN k ELSE KeyIndex(keys, meal_type, k + 1)

\* lst[:n] of a list whose rows come grouped by meal_type in fetch order,
\* each group in random order: every n-subset that takes a row of a later
\* group only when the earlier groups are taken whole
Prefixes(rows, n, meal_name) ==
    LET m == Min(n, Cardinality(rows))
        ord(i) == KeyIndex(StructureKeys(meal_name), MealType(i), 1)
    IN  { K \in SUBSET rows :
            /\ Cardinality(K) = m
            /\ \A x \in K, y \in rows \ K : ord(x) <= ord(y) }

\* STAGE 3: trimming to max_pool_size
TrimmedPools(pool, meal_name, max_pool_size) ==
    IF Cardinality(pool) <= max_pool_size THEN { pool }
    ELSE LET required_recipes ==
                 { i \in pool : StructureCount(meal_name, MealType(i)) > 0 }
             priority_optional_recipes ==
                 { i \in pool \ required_recipes :
                       meal_name = "Dinner" /\ MealType(i) = "Dessert" }
             other_optional_recipes ==
                 (pool \ required_recipes) \ priority_optional_recipes
             remaining_slots == max_pool_size - Cardinality(required_recipes)
         IN  IF remaining_slots > 0
             THEN { required_recipes \cup pk \cup ok :
                       pk \in Prefixes(priority_optional_recipes, remaining_slots, meal_name),
                       ok \in Prefixes(other_optional_recipes,
                                       remaining_slots
                                         - Min(Cardinality(priority_optional_recipes),
                                               remaining_slots),
                                       meal_name) }
             ELSE { required_recipes }

\* construct_funnel_pool: the set of pools one call can return
construct_funnel_pool(cat, meal_name, primary_cluster, used, max_pool_size) ==
    UNION { TrimmedPools(p, meal_name, max_pool_size) :
              p \in FetchedPools(cat, primary_cluster, used, meal_name,
                                 Len(StructureKeys(meal_name))) }

(***************************************************************************)
(* optimization_service.py: create_daily_plan_global                       *)
(***************************************************************************)
\* objective weights 1.0 / 3.0 / 0.8 / 1.0, times five to stay in integers
calorie_weight == 5
protein_weight == 15
fat_weight == 4
carb_weight == 5

\* the pool merge: ids of all three pools that are not used
MergedIds(pools, used) ==
    (pools["Breakfast"] \cup pools["Lunch"] \cup pools["Dinner"]) \ used

\* meal_assignment with the last pool that holds the id winning
meal_assignment_LastWins(pools, i) ==
    CASE i \in pools["Dinner"] -> "Dinner"
      [] i \in pools["Lunch"] -> "Lunch"
      [] i \in pools["Breakfast"] -> "Breakfast"
      [] OTHER -> "Unknown"

\* meal_assignment: the first meal in priority order whose pool holds the id
meal_assignment(pools, i) ==
    CASE i \in pools["Breakfast"] -> "Breakfast"
      [] i \in pools["Lunch"] -> "Lunch"
      [] i \in pools["Dinner"] -> "Dinner"
      [] OTHER -> "Unknown"

\* the (meal, meal_type) groups of the downsampling
MealTypeGroups(pools, all) ==
    { << meal_assignment(pools, i), MealType(i) >> : i \in all }

GroupRows(pools, all, key) ==
    { i \in all : << meal_assignment(pools, i), MealType(i) >> = key }

\* stratified downsampling when the merged pool exceeds max_combined: every
\* choice of target_per_group rows from each group above that size
RECURSIVE SampleGroups(_, _, _, _)
SampleGroups(pools, all, keys, target_per_group) ==
    IF keys = {} THEN { {} }
    ELSE LET key == CHOOSE k \in keys : TRUE
             rows == GroupRows(pools, all, key)
             picks == IF Cardinality(rows) > target_per_group
                      THEN { s \in SUBSET rows : Cardinality(s) = target_per_group }
                      ELSE { rows }
         IN  { s \cup rest : s \in picks,
                   rest \in SampleGroups(pools, all, keys \ {key}, target_per_group) }

\* ReducedPools with a plain random sample of the merged pool
ReducedPoolsUnstratified(pools, used, max_combined) ==
    LET all == MergedIds(pools, used)
    IN  IF Cardinality(all) > max_combined
        THEN { s \in SUBSET all : Cardinality(s) = max_combined }
        ELSE { all }

ReducedPools(pools, used, max_combined) ==
    LET all == MergedIds(pools, used)
        keys == MealTypeGroups(pools, all)
        n == IF Cardinality(keys) > 1 THEN Cardinality(keys) ELSE 1
    IN  IF Cardinality(all) > max_combined
        THEN SampleGroups(pools, all, keys, max_combined \div n)
        ELSE { all }

\* the index lists the constraints are built from
Assigned(pools, all, meal_name) ==
    { i \in all : meal_assignment(pools, i) = meal_name }

breakfast_items(pools, all) ==
    { i \in Assigned(pools, all, "Breakfast") : MealType(i) = "Breakfast" }
fruit_drink_items(pools, all) ==
    { i \in Assigned(pools, all, "Breakfast") : MealType(i) \in {"Fruit", "Drink"} }
lunch_main(pools, all) ==
    { i \in Assigned(pools, all, "Lunch") : MealType(i) = "Main Course" }
lunch_complementary(pools, all) ==
    { i \in Assigned(pools, all, "Lunch") : MealType(i) \in {"Side Dish", "Salad", "Soup"} }
dinner_main(pools, all) ==
    { i \in Assigned(pools, all, "Dinner") : MealType(i) = "Main Course" }
dinner_complementary(pools, all) ==
    { i \in Assigned(pools, all, "Dinner") :
          MealType(i) \in {"Side Dish", "Salad", "Soup", "Dessert"} }
dessert_items(pools, all) ==
    { i \in Assigned(pools, all, "Dinner") : MealType(i) = "Dessert" }

Count(S, G) == Cardinality(S \cap G)

\* structural constraints on the recipes selected among those of one meal
BreakfastConstraints(pools, all, S) ==
    /\ Count(S, breakfast_items(pools, all)) = 1
    /\ Count(S, fruit_drink_items(pools, all)) = 1

LunchConstraints(pools, all, S) ==
    /\ Count(S, lunch_main(pools, all)) = 1
    /\ lunch_complementary(pools, all) # {} =>
          /\ Count(S, lunch_complementary(pools, all)) >= 1
          /\ Count(S, lunch_complementary(pools, all)) <= 2

DinnerConstraints(pools, all, S) ==
    /\ Count(S, dinner_main(pools, all)) = 1
    /\ dinner_complementary(pools, all) # {} =>
          /\ Count(S, dinner_complementary(pools, all)) >= 1
          /\ Count(S, dinner_complementary(pools, all)) <= 2
          /\ dessert_items(pools, all) # {} => Count(S, dessert_items(pools, all)) <= 1

\* TotalConstraint without Daily_MinRecipes
TotalConstraintNoMinimum(S) == Cardinality(S) <= MaxDailyRecipes

\* Daily_MinRecipes / Daily_MaxRecipes
TotalConstraint(S) ==
    Cardinality(S) >= MinDailyRecipes /\ Cardinality(S) <= MaxDailyRecipes

\* ProteinGuard with ProteinMinConstraint alone
ProteinGuardMinOnly(S, targets, pct) ==
    (pct # NoGuard /\ targets.protein_g > 0) =>
        (targets.protein_g - Total(S, "avg_protein_g")) * 100
            <= targets.protein_g * pct[1]

\* ProteinMinConstraint / ProteinMaxConstraint: both deviation variables are
\* capped at target * pct / 100; pct = None switches the guard off
ProteinGuard(S, targets, pct) ==
    (pct # NoGuard /\ targets.protein_g > 0) =>
        Abs(Total(S, "avg_protein_g") - targets.protein_g) * 100
            <= targets.protein_g * pct[1]

\* the selections that satisfy every constraint of the program
MealSelections(pools, all) ==
    { B \cup L \cup D :
        B \in { S \in SUBSET Assigned(pools, all, "Breakfast") :
                    BreakfastConstraints(pools, all, S) /\ Cardinality(S) <= MaxDailyRecipes },
        L \in { S \in SUBSET Assigned(pools, all, "Lunch") :
                    LunchConstraints(pools, all, S) /\ Cardinality(S) <= MaxDailyRecipes },
        D \in { S \in SUBSET Assigned(pools, all, "Dinner") :
                    DinnerConstraints(pools, all, S) /\ Cardinality(S) <= MaxDailyRecipes } }

FeasibleSelections(pools, all, targets, pct) ==
    { S \in MealSelections(pools, all) :
          TotalConstraint(S) /\ ProteinGuard(S, targets, pct) }

\* the objective: weighted sum of the deviations from the daily targets
Objective(S, targets) ==
      calorie_weight * Abs(Total(S, "avg_calories") - targets.calories)
    + protein_weight * Abs(Total(S, "avg_protein_g") - targets.protein_g)
    + fat_weight * Abs(Total(S, "avg_fat_g") - targets.fat_g)
    + carb_weight * Abs(Total(S, "avg_carbs_g") - targets.carbs_g)

\* the selections an Optimal solve can report
OptimalSelections(pools, all, targets, pct) ==
    LET F == FeasibleSelections(pools, all, targets, pct)
        V == { Objective(S, targets) : S \in F }
        best == CHOOSE v \in V : \A w \in V : v <= w
    IN  IF F = {} THEN {} ELSE { S \in F : Objective(S, targets) = best }

\* the statuses a solve can end with: Optimal or Infeasible as the program
\* is, or Error for a solver exception or a timeout
SolveStatuses(pools, all, targets, pct) ==
    { IF FeasibleSelections(pools, all, targets, pct) # {}
      THEN "Optimal" ELSE "Infeasible", "Error" }

\* MealList without the grouping by assigned meal: every selected recipe is
\* put in the list of every meal
MealListIgnoresAssignment(pools, S, meal_name) ==
    [k \in 1..Len(SortedSeq(S)) |-> RecipeDict(SortedSeq(S)[k])]

\* the recipes of one meal in the returned plan; the Breakfast list is
\* rebuilt from its Breakfast rows followed by its Fruit and Drink rows
MealList(pools, S, meal_name) ==
    LET mine == { i \in S : meal_assignment(pools, i) = meal_name }
        dicts(ids) == [k \in 1..Len(SortedSeq(ids)) |-> RecipeDict(SortedSeq(ids)[k])]
    IN  IF meal_name = "Breakfast"
        THEN dicts({ i \in mine : MealType(i) = "Breakfast" })
             \o dicts({ i \in mine : MealType(i) \in {"Fruit", "Drink"} })
        ELSE dicts(mine)

\* a float quotient num / den, kept exact as the pair of its terms
Ratio(num, den) == [num |-> num, den |-> den]

NutrientKeys == {"calories", "protein_g", "fat_g", "carbs_g"}

\* actual_nutrients: the sums over the selected recipes
ActualNutrients(S) ==
    [calories |-> Total(S, "avg_calories"), protein_g |-> Total(S, "avg_protein_g"),
     fat_g |-> Total(S, "avg_fat_g"), carbs_g |-> Total(S, "avg_carbs_g")]

\* deviations: one entry for every nutrient whose target is positive, with
\* deviation_pct = abs(actual - target) / target * 100
Deviations(actual, targets) ==
    [n \in { k \in NutrientKeys : targets[k] > 0 } |->
        [target |-> targets[n], actual |-> actual[n],
         deviation_pct |-> Ratio(Abs(actual[n] - targets[n]) * 100, targets[n])]]

\* the result dictionary built from a selection
DayResult(pools, S, status, targets) ==
    [Breakfast |-> MealList(pools, S, "Breakfast"),
     Lunch |-> MealList(pools, S, "Lunch"),
     Dinner |-> MealList(pools, S, "Dinner"),
     status |-> status,
     deviations |-> Deviations(ActualNutrients(S), targets),
     actual_nutrients |-> ActualNutrients(S)]

\* the value None of create_daily_plan_global, in the shape of a result
NoResult ==
    [Breakfast |-> << >>, Lunch |-> << >>, Dinner |-> << >>, status |-> "None",
     deviations |-> << >>,
     actual_nutrients |-> [calories |-> 0, protein_g |-> 0, fat_g |-> 0, carbs_g |-> 0]]

IsNone(r) == r.status = "None"

\* the pre-solve validation: the reason the call returns None, or "ok"
PreSolveCheck(pools, all) ==
    CASE Cardinality(all) < MinRecipesInPool -> "Insufficient recipes"
      [] breakfast_items(pools, all) = {} -> "No Breakfast items"
      [] fruit_drink_items(pools, all) = {} -> "No Fruit/Drink for Breakfast"
      [] lunch_main(pools, all) = {} -> "No Main Courses for Lunch"
      [] dinner_main(pools, all) = {} -> "No Main Courses for Dinner"
      [] OTHER -> "ok"

\* create_daily_plan_global with the protein guard kept in the second program
create_daily_plan_global_RetryKeepsGuard(pools, targets, used, pct, max_combined) ==
    UNION {
        IF PreSolveCheck(pools, all) # "ok"
        THEN { [ret |-> NoResult, log |-> << >>, why |-> PreSolveCheck(pools, all)] }
        ELSE UNION {
            CASE st = "Optimal" ->
                    { [ret |-> DayResult(pools, S, "Optimal", targets), log |-> << st >>, why |-> "ok"] :
                          S \in OptimalSelections(pools, all, targets, pct) }
              [] st = "Infeasible" ->
                    UNION {
                        IF st2 = "Optimal"
                        THEN { [ret |-> DayResult(pools, S, "Optimal_Relaxed", targets),
                                log |-> << st, st2 >>, why |-> "ok"] :
                                   S \in OptimalSelections(pools, all, targets, pct) }
                        ELSE { [ret |-> NoResult, log |-> << st, st2 >>,
                                why |-> "Fallback also failed"] } :
                        st2 \in SolveStatuses(pools, all, targets, pct) }
              [] OTHER ->
                    { [ret |-> NoResult, log |-> << st >>, why |-> "No optimal solution found"] } :
            st \in SolveStatuses(pools, all, targets, pct) } :
        all \in ReducedPools(pools, used, max_combined) }

\* create_daily_plan_global: the outcomes one call can have, each with the
\* value returned (ret) and the statuses of the solves it made (log)
create_daily_plan_global(pools, targets, used, pct, max_combined) ==
    UNION {
        IF PreSolveCheck(pools, all) # "ok"
        THEN { [ret |-> NoResult, log |-> << >>, why |-> PreSolveCheck(pools, all)] }
        ELSE UNION {
            CASE st = "Optimal" ->
                    { [ret |-> DayResult(pools, S, "Optimal", targets), log |-> << st >>, why |-> "ok"] :
                          S \in OptimalSelections(pools, all, targets, pct) }
              [] st = "Infeasible" ->
                    UNION {
                        IF st2 = "Optimal"
                        THEN { [ret |-> DayResult(pools, S, "Optimal_Relaxed", targets),
                                log |-> << st, st2 >>, why |-> "ok"] :
                                   S \in OptimalSelections(pools, all, targets, NoGuard) }
                        ELSE { [ret |-> NoResult, log |-> << st, st2 >>,
                                why |-> "Fallback also failed"] } :
                        st2 \in SolveStatuses(pools, all, targets, NoGuard) }
              [] OTHER ->
                    { [ret |-> NoResult, log |-> << st >>, why |-> "No optimal solution found"] } :
            st \in SolveStatuses(pools, all, targets, pct) } :
        all \in ReducedPools(pools, used, max_combined) }

\* the solver objects of the first program and of the relaxed retry
PrimaryObjects == { "prob", "recipe_vars", "pos_dev", "neg_dev", "solver" }
RelaxedObjects == { "prob_relaxed", "recipe_vars_relaxed", "pos_dev_relaxed",
                    "neg_dev_relaxed", "solver_relaxed" }

\* the "del" statements of the finally block
FinallyDeleted == { "prob", "recipe_vars", "pos_dev", "neg_dev" }

\* the "del" statements of the retry: all four after an Optimal solve,
\* prob_relaxed after another status, none after a solver exception
RetryDeleted(log) ==
    IF Len(log) < 2 THEN { {} }
    ELSE CASE log[2] = "Optimal" ->
                 { { "prob_relaxed", "recipe_vars_relaxed", "pos_dev_relaxed",
                     "neg_dev_relaxed" } }
           [] log[2] = "Infeasible" -> { { "prob_relaxed" } }
           [] OTHER -> { {}, { "prob_relaxed" } }

\* HeldAtReturn without the finally block
HeldAtReturnNoFinally(log) ==
    IF log = << >> THEN { {} }
    ELSE { (PrimaryObjects \cup (IF Len(log) = 2 THEN RelaxedObjects ELSE {})) \ d :
               d \in RetryDeleted(log) }

\* the solver objects a call has created and not deleted when it returns;
\* none is created when the call returns before the problem is built
HeldAtReturn(log) ==
    IF log = << >> THEN { {} }
    ELSE { (PrimaryObjects \cup (IF Len(log) = 2 THEN RelaxedObjects ELSE {}))
               \ (FinallyDeleted \cup d) : d \in RetryDeleted(log) }

(***************************************************************************)
(* optimization_service.py: heuristic_meal_selection (relaxation level 4)  *)
(***************************************************************************)
HEURISTIC_SEARCH_LIMIT == 100

\* recipe value / target * 100, 0 when the target is not positive (the
\* values of AllRecipes divide exactly by the targets of TargetChoices)
Pct(v, t) == IF t > 0 THEN (v * 100) \div t ELSE 0

\* the square of the Euclidean distance to the normalized target
Distance2(i, targets) ==
    LET d(col, t) == (Pct(AllRecipes[i][col], t) - 100) * (Pct(AllRecipes[i][col], t) - 100)
    IN  d("avg_calories", targets.calories) + d("avg_protein_g", targets.protein_g)
        + d("avg_fat_g", targets.fat_g) + d("avg_carbs_g", targets.carbs_g)

\* rows[:n]: the pool has no order here, so any n rows can be the first n
FirstRows(rows, n) ==
    IF Cardinality(rows) <= n THEN { rows }
    ELSE { T \in SUBSET rows : Cardinality(T) = n }

\* required_types and the sum of their counts
RequiredTypes(meal_structure) ==
    SelectSeq(meal_structure.keys, LAMBDA mt : meal_structure.count[mt] > 0)

RECURSIVE SumCounts(_, _, _)
SumCounts(meal_structure, keys, k) ==
    IF k > Len(keys) THEN 0
    ELSE meal_structure.count[keys[k]] + SumCounts(meal_structure, keys, k + 1)

\* the loop over the required types: the closest recipe of each type that
\* has rows is selected and leaves the pool
RECURSIVE HeuristicByType(_, _, _, _, _)
HeuristicByType(pool, targets, keys, k, selected) ==
    IF k > Len(keys) THEN { selected }
    ELSE LET type_recipes == { i \in pool \ selected : MealType(i) = keys[k] }
             best(rows) == { i \in rows : \A j \in rows :
                                 Distance2(i, targets) <= Distance2(j, targets) }
         IN  IF type_recipes = {}
             THEN HeuristicByType(pool, targets, keys, k + 1, selected)
             ELSE UNION { UNION { HeuristicByType(pool, targets, keys, k + 1,
                                                  selected \cup {b}) : b \in best(rows) } :
                          rows \in FirstRows(type_recipes, HEURISTIC_SEARCH_LIMIT) }

\* the fill loop: closest calories, whatever the type
RECURSIVE HeuristicFill(_, _, _, _)
HeuristicFill(pool, targets, need, selected) ==
    IF Cardinality(selected) >= need \/ pool \ selected = {} THEN { selected }
    ELSE LET best(rows) == { i \in rows : \A j \in rows :
                                 Abs(AllRecipes[i].avg_calories - targets.calories)
                                   <= Abs(AllRecipes[j].avg_calories - targets.calories) }
         IN  UNION { UNION { HeuristicFill(pool, targets, need, selected \cup {b}) :
                             b \in best(rows) } :
                     rows \in FirstRows(pool \ selected, HEURISTIC_SEARCH_LIMIT) }

\* heuristic_meal_selection without the loop over the required types
heuristic_meal_selection_FillOnly(pool, targets, name, structure) ==
    LET keys == RequiredTypes(structure)
        need == SumCounts(structure, keys, 1)
        filled == HeuristicFill(pool, targets, need, {})
    IN  UNION { IF sel = {}
                THEN { T \in SUBSET pool : Cardinality(T) = Min(2, Cardinality(pool)) }
                ELSE { sel } : sel \in filled }

\* heuristic_meal_selection: the selections ('recipes') one call can return
heuristic_meal_selection(pool, targets, name, structure) ==
    LET keys == RequiredTypes(structure)
        need == SumCounts(structure, keys, 1)
        filled == UNION { HeuristicFill(pool, targets, need, sel) :
                          sel \in HeuristicByType(pool, targets, keys, 1, {}) }
    IN  UNION { IF sel = {}
                THEN { T \in SUBSET pool : Cardinality(T) = Min(2, Cardinality(pool)) }
                ELSE { sel } : sel \in filled }

(***************************************************************************)
(* optimization_service.py: create_single_meal                             *)
(***************************************************************************)
MIN_RECIPES_NEEDED == 2

\* a meal name as create_single_meal receives it: the name and, when the
\* caller is create_single_meal_resilient, the suffix of f"{meal_name}_L{level}"
PlainName(name) == [name |-> name, suffix |-> << >>]
LevelName(name, lvl) == [name |-> name, suffix |-> << "_L", lvl >>]

\* meal_name == name
NameIs(n, name) == n.suffix = << >> /\ n.name = name

\* the value of create_single_meal: None, or the list of selected recipes
NoRecipes == << >>
Recipes(S) == << S >>

\* recipes_df[recipes_df['meal_type'] == meal_type].index
TypeIndices(pool, meal_type) == { i \in pool : MealType(i) = meal_type }

\* "return None" inside the structural part: a required type has fewer
\* rows than its count
MissingRows(pool, n, structure) ==
    LET req == SeqRange(RequiredTypes(structure))
        short(mt) == Cardinality(TypeIndices(pool, mt)) < structure.count[mt]
    IN  CASE NameIs(n, "Breakfast") -> "Breakfast" \in req /\ short("Breakfast")
          [] NameIs(n, "Lunch") \/ NameIs(n, "Dinner") ->
                 "Main Course" \in req /\ short("Main Course")
          [] OTHER -> \E mt \in req : short(mt)

\* the structural constraints, by the branch the meal name selects
StructuralConstraints(pool, n, structure, S) ==
    LET req == SeqRange(RequiredTypes(structure))
        cnt(mt) == Cardinality(S \cap TypeIndices(pool, mt))
        complementary == cnt("Side Dish") + cnt("Side") + cnt("Salad") + cnt("Soup")
    IN  CASE NameIs(n, "Breakfast") ->
                 /\ "Breakfast" \in req => cnt("Breakfast") = structure.count["Breakfast"]
                 /\ cnt("Fruit") + cnt("Drink") >= 1
                 /\ cnt("Fruit") + cnt("Drink") <= 1
                 /\ Cardinality(S) = 2
          [] NameIs(n, "Lunch") \/ NameIs(n, "Dinner") ->
                 /\ "Main Course" \in req =>
                        cnt("Main Course") = structure.count["Main Course"]
                 /\ complementary >= 1
                 /\ complementary <= 2
                 /\ Cardinality(S) >= 2
                 /\ Cardinality(S) <= 3
          [] OTHER ->
                 /\ \A mt \in req : cnt(mt) = structure.count[mt]
                 /\ Cardinality(S) = SumCounts(structure, RequiredTypes(structure), 1)

\* MaxProteinPositiveDev / MaxProteinNegativeDev
MealProteinGuard(S, targets, pct) ==
    (pct # NoGuard /\ targets.protein_g > 0) =>
        Abs(Total(S, "avg_protein_g") - targets.protein_g) * 100
            <= targets.protein_g * pct[1]

\* the objective, with the weights 1.0, 3.0, 0.8, 1.0 multiplied by 5
MealObjective(S, targets) ==
      5 * Abs(Total(S, "avg_calories") - targets.calories)
    + 15 * Abs(Total(S, "avg_protein_g") - targets.protein_g)
    + 4 * Abs(Total(S, "avg_fat_g") - targets.fat_g)
    + 5 * Abs(Total(S, "avg_carbs_g") - targets.carbs_g)

\* create_single_meal: the values one call can return
create_single_meal(pool, targets, n, structure, pct) ==
    IF pool = {} \/ Cardinality(pool) < MIN_RECIPES_NEEDED \/ MissingRows(pool, n, structure)
    THEN { NoRecipes }
    ELSE LET F == { S \in SUBSET pool : /\ StructuralConstraints(pool, n, structure, S)
                                        /\ MealProteinGuard(S, targets, pct) }
             V == { MealObjective(S, targets) : S \in F }
             best == CHOOSE v \in V : \A w \in V : v <= w
         IN  IF F = {} THEN { NoRecipes }
             ELSE { Recipes(S) : S \in { T \in F : MealObjective(T, targets) = best } }

(***************************************************************************)
(* optimization_service.py: create_single_meal_resilient                   *)
(***************************************************************************)
\* range(5)
RelaxationLevels == 5

\* current_protein_deviation at a level
CurrentProteinDeviation(lvl, initial) ==
    IF lvl >= 3 THEN 50 ELSE IF lvl >= 1 THEN 20 ELSE initial

\* current_structure at a level
CurrentStructure(lvl, structure) ==
    IF lvl < 2 THEN structure
    ELSE IF "Breakfast" \in DOMAIN structure.count
    THEN [keys |-> << "Breakfast", "Fruit" >>,
          count |-> [mt \in {"Breakfast", "Fruit"} |-> IF mt = "Breakfast" THEN 1 ELSE 0]]
    ELSE [keys |-> << "Main Course" >>,
          count |-> [mt \in {"Main Course"} |->
                        IF "Main Course" \in DOMAIN structure.count
                        THEN structure.count["Main Course"] ELSE 1]]

\* max_protein_deviation_pct passed to create_single_meal at a level
CurrentGuard(lvl, initial) ==
    IF lvl < 4 THEN Guard(CurrentProteinDeviation(lvl, initial)) ELSE NoGuard

\* the dictionary returned for a selection
MealResult(S, lvl, targets) ==
    [recipes |-> S, relaxation_level |-> lvl,
     deviations |-> Deviations(ActualNutrients(S), targets)]

\* no value returned yet
NoMealResult == [recipes |-> {}, relaxation_level |-> -1, deviations |-> << >>]

(***************************************************************************)
(* default_plans.py                                                        *)
(***************************************************************************)
\* One template slot: the term lists _find_real_recipe is tried with, the
\* meal_type searched, the calorie target, twice the protein target (the
\* templates use half grams), the id and meal_type of the pre-defined
\* recipe, the meal_type handed to _ensure_unique_recipe_for_day and the
\* meal list the recipe is put in.
Slot(searches, mt, cal, pro2, id, ensure, meal) ==
    [searches |-> searches, meal_type |-> mt, calories |-> cal, protein2 |-> pro2,
     default_id |-> id, ensure_type |-> ensure, meal |-> meal]

\* _get_balanced_default_plan
BalancedTemplate == <<
    Slot(<< {"oatmeal", "nuts", "berries"} >>, "Breakfast", 450, 30, -1,
         "Breakfast", "Breakfast"),
    Slot(<< {"beef", "stir", "fry", "rice"}, {"stir", "fry"} >>, "Main Course", 650, 80, -2,
         "Main Course", "Lunch"),
    Slot(<< {"pasta", "marinara", "turkey", "meatball"}, {"pasta", "meatball"} >>,
         "Main Course", 700, 90, -3, "Main Course", "Dinner"),
    Slot(<< {"green", "salad", "vinaigrette"}, {"salad"} >>, "Salad", 150, 6, -4,
         "Salad", "Dinner") >>

\* _get_high_protein_default_plan
HighProteinTemplate == <<
    Slot(<< {"greek", "yogurt", "granola", "protein"}, {"yogurt", "granola"} >>,
         "Breakfast", 600, 100, -10, "Breakfast", "Breakfast"),
    Slot(<< {"banana"} >>, "Fruit", 100, 2, -11, "Fruit", "Breakfast"),
    Slot(<< {"burrito", "bowl", "chicken"}, {"burrito", "chicken"} >>,
         "Main Course", 900, 130, -12, "Main Course", "Lunch"),
    Slot(<< {"steak", "roasted", "potato", "broccoli"}, {"steak", "potato"} >>,
         "Main Course", 850, 120, -13, "Main Course", "Dinner") >>

\* _get_weight_loss_default_plan
WeightLossTemplate == <<
    Slot(<< {"scrambled", "egg", "spinach"}, {"scrambled", "egg"} >>,
         "Breakfast", 300, 50, -20, "Breakfast", "Breakfast"),
    Slot(<< {"apple"} >>, "Fruit", 80, 1, -21, "Fruit", "Breakfast"),
    Slot(<< {"grilled", "chicken", "salad"}, {"chicken", "salad"} >>,
         "Salad", 450, 80, -22, "Main Course", "Lunch"),
    Slot(<< {"quinoa"} >>, "Side Dish", 150, 12, -23, "Side Dish", "Lunch"),
    Slot(<< {"baked", "salmon", "asparagus"}, {"salmon", "asparagus"} >>,
         "Main Course", 400, 70, -24, "Main Course", "Dinner"),
    Slot(<< {"sweet", "potato"} >>, "Side Dish", 120, 4, -25, "Side Dish", "Dinner") >>

\* get_default_plan: the template of a goal
TemplateOf(goal) ==
    CASE goal = "gain_muscle" -> HighProteinTemplate
      [] goal = "lose_weight" -> WeightLossTemplate
      [] OTHER -> BalancedTemplate

\* _find_real_recipe: the recipe found, as a sequence of length 0 or 1.
\* The first row (lowest id) whose name holds all terms, else the first
\* whose name holds any term; it is returned only if its calories and
\* protein are within 30 percent of the targets.
_find_real_recipe(cat, search_terms, meal_type, calories, protein2) ==
    LET typed == { i \in cat : MealType(i) = meal_type /\ MealType(i) # "Unknown" }
        all_match == { i \in typed : \A t \in search_terms : NameContains(i, t) }
        any_match == { i \in typed : \E t \in search_terms : NameContains(i, t) }
        found == IF all_match # {} THEN all_match ELSE any_match
        recipe == CHOOSE i \in found : \A j \in found : i <= j
        cal_match == Abs(AllRecipes[recipe].avg_calories - calories) * 100
                         <= 30 * (IF calories > 1 THEN calories ELSE 1)
        pro_match == Abs(2 * AllRecipes[recipe].avg_protein_g - protein2) * 100
                         <= 30 * (IF protein2 > 2 THEN protein2 ELSE 2)
    IN  IF found # {} /\ cal_match /\ pro_match THEN << RecipeDict(recipe) >> ELSE << >>

\* a or b or ...: the first search that finds a recipe, else the
\* pre-defined recipe of _create_default_recipe
RECURSIVE TemplateRecipe(_, _, _)
TemplateRecipe(cat, slot, k) ==
    IF k > Len(slot.searches)
    THEN [id |-> slot.default_id, meal_type |-> slot.meal_type]
    ELSE LET r == _find_real_recipe(cat, slot.searches[k], slot.meal_type,
                                    slot.calories, slot.protein2)
         IN  IF r # << >> THEN r[1] ELSE TemplateRecipe(cat, slot, k + 1)

\* _ensure_unique_recipe_for_day: the recipes one call can return
_ensure_unique_recipe_for_day(cat, recipe_template, meal_type, used, day_number) ==
    LET alt == { i \in cat : MealType(i) = meal_type /\ i \notin used
                             /\ MealType(i) # "Unknown" }
    IN  IF recipe_template.id \notin used THEN { recipe_template }
        ELSE IF alt # {} THEN { RecipeDict(i) : i \in alt }
        ELSE IF recipe_template.id < 0
        THEN { [id |-> recipe_template.id - day_number * 1000,
                meal_type |-> recipe_template.meal_type] }
        ELSE { recipe_template }

\* the choices of one day: every sequence with one recipe per slot
RECURSIVE DayChoices(_, _, _, _, _)
DayChoices(cat, template, used, day_number, k) ==
    IF k = 0 THEN { << >> }
    ELSE { Append(pre, r) :
              pre \in DayChoices(cat, template, used, day_number, k - 1),
              r \in _ensure_unique_recipe_for_day(
                        cat, TemplateRecipe(cat, template[k], 1),
                        template[k].ensure_type, used, day_number) }

\* day_structure: the recipes of the slots of one meal, in slot order
RECURSIVE SlotsOfMeal(_, _, _, _)
SlotsOfMeal(template, chosen, meal_name, k) ==
    IF k > Len(template) THEN << >>
    ELSE (IF template[k].meal = meal_name THEN << chosen[k] >> ELSE << >>)
         \o SlotsOfMeal(template, chosen, meal_name, k + 1)

DayStructure(template, chosen) ==
    [Breakfast |-> SlotsOfMeal(template, chosen, "Breakfast", 1),
     Lunch |-> SlotsOfMeal(template, chosen, "Lunch", 1),
     Dinner |-> SlotsOfMeal(template, chosen, "Dinner", 1)]

\* the day loop of a template function: the plans it can return
RECURSIVE DefaultPlansFrom(_, _, _, _, _)
DefaultPlansFrom(cat, template, used, day_number, n) ==
    IF day_number > n THEN { << >> }
    ELSE UNION {
            { << DayStructure(template, chosen) >> \o rest :
                rest \in DefaultPlansFrom(cat, template, used \cup SeqIds(chosen),
                                          day_number + 1, n) } :
            chosen \in DayChoices(cat, template, used, day_number, Len(template)) }

\* get_default_plan without the choice of the template by goal
get_default_plan_AlwaysBalanced(cat, goal, n) ==
    DefaultPlansFrom(cat, BalancedTemplate, {}, 1, n)

\* get_default_plan with a day loop that stops one day early
get_default_plan_OneDayShort(cat, goal, n) ==
    DefaultPlansFrom(cat, TemplateOf(goal), {}, 1, IF n > 0 THEN n - 1 ELSE 0)

\* get_default_plan: the plans one call can return
get_default_plan(cat, goal, n) ==
    DefaultPlansFrom(cat, TemplateOf(goal), {}, 1, n)

(***************************************************************************)
(* planner_service.py: generate_full_meal_plan                             *)
(***************************************************************************)
NoPools == [m \in {"Breakfast", "Lunch", "Dinner"} |-> {}]
NoError == [kind |-> "none", day |-> 0]

\* base_queryset.count(): rows of the cluster that are not Unknown and hold
\* no allergy or dislike keyword in their name
total_available(cat, cluster, keywords) ==
    Cardinality({ i \in cat : /\ AllRecipes[i].cluster = cluster
                              /\ MealType(i) # "Unknown"
                              /\ \A a \in keywords : ~NameContains(i, a) })

\* day_plan: the three lists taken from the result dictionary
DayPlan(r) == [Breakfast |-> r.Breakfast, Lunch |-> r.Lunch, Dinner |-> r.Dinner]

\* day_recipe_ids: the ids of a day plan, in the order the checks visit them
DayIdList(d) ==
    LET all == d.Breakfast \o d.Lunch \o d.Dinner
    IN  [k \in 1..Len(all) |-> all[k].id]

\* "Recipe ID ... was already used in a previous day"
InterDayRepetition(d, used) == SeqRange(DayIdList(d)) \cap used # {}

\* len(day_recipe_ids) != len(unique_day_ids)
IntraDayRepetition(d) == Len(DayIdList(d)) # Cardinality(SeqRange(DayIdList(d)))

\* "if not weekly_plan or len(weekly_plan) < number_of_days"
PlanIncomplete(plan, n) == plan = << >> \/ Len(plan) < n

\* _handle_fallback keeping the days solved before the failure
FallbackPlansKeepSolved ==
    { weekly_plan \o SubSeq(default_plan, Len(weekly_plan) + 1, Len(default_plan)) :
          default_plan \in get_default_plan(catalog, primary_goal, number_of_days) }

\* the plans _handle_fallback can return
FallbackPlans == get_default_plan(catalog, primary_goal, number_of_days)

\* no direct call of a single-meal function is under way
NoMealCall ==
    [recipe_pool |-> {}, meal_target_nutrients |-> [calories |-> 0, protein_g |-> 0,
                                                    fat_g |-> 0, carbs_g |-> 0],
     meal_name |-> "", meal_structure |-> DefaultStructure,
     initial_max_protein_deviation_pct |-> 0]

\* no direct call of construct_funnel_pool is under way
NoPoolCall == [meal_name |-> "", primary_cluster |-> 0, max_pool_size |-> 0]

MealIdle ==
    /\ meal_call = NoMealCall
    /\ level = 0
    /\ attempts = << >>
    /\ meal_result = NoMealResult

Init ==
    /\ catalog \in { AllIds \ r : r \in RemovedChoices }
    /\ \E p \in ProfileChoices :
          /\ primary_goal = p.primary_goal
          /\ dietary_style = p.dietary_style
          /\ allergies = p.allergies
    /\ number_of_days \in 0..MaxDays
    /\ daily_targets \in TargetChoices
    /\ pc = "start"
    /\ day = 0
    /\ used_recipe_ids = {}
    /\ weekly_plan = << >>
    /\ recipe_pools = NoPools
    /\ daily_plan_result = NoResult
    /\ solver_log = << >>
    /\ solver_objects = {}
    /\ error_message = NoError
    /\ result = << >>
    /\ outcome = "none"
    /\ max_protein_deviation_pct = Guard(ORCHESTRATOR_PROTEIN_PCT)
    /\ MealIdle
    /\ pool_call = NoPoolCall

\* what a run of generate_full_meal_plan never assigns: the request and the
\* arguments of the direct calls
Profile == << catalog, primary_goal, dietary_style, number_of_days, daily_targets,
              allergies, max_protein_deviation_pct, meal_call, level, attempts,
              meal_result, pool_call >>

\* raise Exception(...) inside the try block: control goes to the handler
Raise(kind) ==
    /\ pc' = "fallback"
    /\ error_message' = [kind |-> kind, day |-> day]

\* lines 630-681: the check of the number of recipes, then the set-up of
\* the day loop
Start ==
    /\ pc = "start"
    /\ IF total_available(catalog, map_goal_to_cluster(primary_goal, dietary_style),
                          allergies) < MinAvailableRecipes
       THEN /\ Raise("Insufficient recipes in pool")
            /\ UNCHANGED << day, used_recipe_ids, weekly_plan >>
       ELSE /\ pc' = "day_loop"
            /\ day' = 1
            /\ used_recipe_ids' = {}
            /\ weekly_plan' = << >>
            /\ UNCHANGED error_message
    /\ UNCHANGED << Profile, recipe_pools, daily_plan_result, solver_log, solver_objects,
                    result, outcome >>

\* lines 683-710: the three pools of the day
BuildPools ==
    /\ pc = "day_loop"
    /\ day <= number_of_days
    /\ LET cluster == map_goal_to_cluster(primary_goal, dietary_style)
           pool(m) == construct_funnel_pool(catalog, m, cluster, used_recipe_ids,
                                            MAX_RECIPES_PER_MEAL_POOL)
       IN  \E pb \in pool("Breakfast"), pl \in pool("Lunch"), pd \in pool("Dinner") :
              IF pb = {}
              THEN Raise("Failed to construct recipe pools") /\ recipe_pools' = NoPools
              ELSE IF pl = {}
              THEN /\ Raise("Failed to construct recipe pools")
                   /\ recipe_pools' = [NoPools EXCEPT !["Breakfast"] = pb]
              ELSE IF pd = {}
              THEN /\ Raise("Failed to construct recipe pools")
                   /\ recipe_pools' = [NoPools EXCEPT !["Breakfast"] = pb, !["Lunch"] = pl]
              ELSE /\ pc' = "solve"
                   /\ recipe_pools' = [Breakfast |-> pb, Lunch |-> pl, Dinner |-> pd]
                   /\ UNCHANGED error_message
    /\ UNCHANGED << Profile, day, used_recipe_ids, weekly_plan, daily_plan_result,
                    solver_log, solver_objects, result, outcome >>

\* lines 712-725: the call of create_daily_plan_global
Solve ==
    /\ pc = "solve"
    /\ \E out \in create_daily_plan_global(recipe_pools, daily_targets, used_recipe_ids,
                                           Guard(ORCHESTRATOR_PROTEIN_PCT),
                                           MAX_COMBINED_POOL_SIZE) :
          /\ daily_plan_result' = out.ret
          /\ solver_log' = out.log
          /\ solver_objects' \in HeldAtReturn(out.log)
          /\ IF IsNone(out.ret)
             THEN Raise("Daily global optimization failed")
             ELSE pc' = "validate" /\ UNCHANGED error_message
    /\ UNCHANGED << Profile, day, used_recipe_ids, weekly_plan, recipe_pools, result,
                    outcome >>

\* ValidateDay without the update of used_recipe_ids
ValidateDayForgetsUsed ==
    /\ pc = "validate"
    /\ LET day_plan == DayPlan(daily_plan_result)
       IN  IF InterDayRepetition(day_plan, used_recipe_ids)
           THEN /\ Raise("Inter-day recipe repetition detected")
                /\ UNCHANGED << day, used_recipe_ids, weekly_plan, recipe_pools,
                                daily_plan_result, solver_objects >>
           ELSE IF IntraDayRepetition(day_plan)
           THEN /\ Raise("Intra-day recipe repetition detected")
                /\ UNCHANGED << day, used_recipe_ids, weekly_plan, recipe_pools,
                                daily_plan_result, solver_objects >>
           ELSE /\ used_recipe_ids' = used_recipe_ids
                /\ weekly_plan' = Append(weekly_plan, day_plan)
                /\ recipe_pools' = NoPools
                /\ daily_plan_result' = NoResult
                /\ solver_objects' = {}
                /\ day' = day + 1
                /\ pc' = "day_loop"
                /\ UNCHANGED error_message
    /\ UNCHANGED << Profile, solver_log, result, outcome >>

\* ValidateDay with used_recipe_ids set to the ids of the day alone
ValidateDayResetsUsed ==
    /\ pc = "validate"
    /\ LET day_plan == DayPlan(daily_plan_result)
       IN  IF InterDayRepetition(day_plan, used_recipe_ids)
           THEN /\ Raise("Inter-day recipe repetition detected")
                /\ UNCHANGED << day, used_recipe_ids, weekly_plan, recipe_pools,
                                daily_plan_result, solver_objects >>
           ELSE IF IntraDayRepetition(day_plan)
           THEN /\ Raise("Intra-day recipe repetition detected")
                /\ UNCHANGED << day, used_recipe_ids, weekly_plan, recipe_pools,
                                daily_plan_result, solver_objects >>
           ELSE /\ used_recipe_ids' = SeqRange(DayIdList(day_plan))
                /\ weekly_plan' = Append(weekly_plan, day_plan)
                /\ recipe_pools' = NoPools
                /\ daily_plan_result' = NoResult
                /\ solver_objects' = {}
                /\ day' = day + 1
                /\ pc' = "day_loop"
                /\ UNCHANGED error_message
    /\ UNCHANGED << Profile, solver_log, result, outcome >>

\* lines 727-813: the two uniqueness checks, then the update of the
\* Used-Recipe Set and of the plan
ValidateDay ==
    /\ pc = "validate"
    /\ LET day_plan == DayPlan(daily_plan_result)
       IN  IF InterDayRepetition(day_plan, used_recipe_ids)
           THEN /\ Raise("Inter-day recipe repetition detected")
                /\ UNCHANGED << day, used_recipe_ids, weekly_plan, recipe_pools,
                                daily_plan_result, solver_objects >>
           ELSE IF IntraDayRepetition(day_plan)
           THEN /\ Raise("Intra-day recipe repetition detected")
                /\ UNCHANGED << day, used_recipe_ids, weekly_plan, recipe_pools,
                                daily_plan_result, solver_objects >>
           ELSE /\ used_recipe_ids' = used_recipe_ids \cup SeqRange(DayIdList(day_plan))
                /\ weekly_plan' = Append(weekly_plan, day_plan)
                /\ recipe_pools' = NoPools
                /\ daily_plan_result' = NoResult
                /\ solver_objects' = {}
                /\ day' = day + 1
                /\ pc' = "day_loop"
                /\ UNCHANGED error_message
    /\ UNCHANGED << Profile, solver_log, result, outcome >>

\* lines 815-838: after the loop, the plan is returned if it is complete
Complete ==
    /\ pc = "day_loop"
    /\ day > number_of_days
    /\ IF PlanIncomplete(weekly_plan, number_of_days)
       THEN /\ Raise("Failed to generate complete plan")
            /\ UNCHANGED << day, used_recipe_ids, weekly_plan, solver_log, result, outcome >>
       ELSE /\ pc' = "done"
            /\ result' = weekly_plan
            /\ outcome' = "optimizer"
            /\ day' = 0
            /\ used_recipe_ids' = {}
            /\ weekly_plan' = << >>
            /\ solver_log' = << >>
            /\ UNCHANGED error_message
    /\ UNCHANGED << Profile, recipe_pools, daily_plan_result, solver_objects >>

\* lines 840-883: the handler returns the default plan; the locals of the
\* run are gone when the function has returned
HandleFallback ==
    /\ pc = "fallback"
    /\ \E default_plan \in FallbackPlans : result' = default_plan
    /\ outcome' = "fallback"
    /\ pc' = "done"
    /\ day' = 0
    /\ used_recipe_ids' = {}
    /\ weekly_plan' = << >>
    /\ recipe_pools' = NoPools
    /\ daily_plan_result' = NoResult
    /\ solver_log' = << >>
    /\ UNCHANGED << Profile, solver_objects, error_message >>

Next ==
    \/ Start
    \/ BuildPools
    \/ Solve
    \/ ValidateDay
    \/ Complete
    \/ HandleFallback

Spec == Init /\ [][Next]_vars

(***************************************************************************)
(* A direct call of create_daily_plan_global, on the pools                 *)
(* construct_funnel_pool builds for the first day of a cluster-3 request   *)
(* and on pools built by hand                                              *)
(***************************************************************************)
\* the guards a caller passes: None or a percentage
SolverPctChoices == { NoGuard, Guard(5), Guard(15), Guard(30) }

\* the used_recipe_ids argument of the call
SolverUsedChoices == { {}, {5, 9} }

\* recipe_pools arguments a caller builds by hand: a Dinner pool with a Side
\* Dish and a Dessert, and a Breakfast pool that also holds a Dessert
SolverPoolChoices ==
    { [Breakfast |-> {1, 3}, Lunch |-> {8, 10}, Dinner |-> {5, 9, 13}],
      [Breakfast |-> {2, 4, 13}, Lunch |-> {8, 10}, Dinner |-> {5, 9}] }

SolverInit ==
    /\ catalog \in { AllIds \ r : r \in RemovedChoices }
    /\ primary_goal = "gain_muscle"
    /\ dietary_style = "balanced"
    /\ allergies = {}
    /\ number_of_days = 1
    /\ daily_targets \in TargetChoices
    /\ used_recipe_ids \in SolverUsedChoices
    /\ LET cluster == map_goal_to_cluster(primary_goal, dietary_style)
           pool(m) == construct_funnel_pool(catalog, m, cluster, {},
                                            MAX_RECIPES_PER_MEAL_POOL)
       IN  recipe_pools \in { [Breakfast |-> pb, Lunch |-> pl, Dinner |-> pd] :
                                  pb \in pool("Breakfast"), pl \in pool("Lunch"),
                                  pd \in pool("Dinner") }
                              \cup (IF catalog = AllIds THEN SolverPoolChoices ELSE {})
    /\ max_protein_deviation_pct \in SolverPctChoices
    /\ pc = "call"
    /\ day = 1
    /\ weekly_plan = << >>
    /\ daily_plan_result = NoResult
    /\ solver_log = << >>
    /\ solver_objects = {}
    /\ error_message = NoError
    /\ result = << >>
    /\ outcome = "none"
    /\ MealIdle
    /\ pool_call = NoPoolCall

\* create_daily_plan_global(recipe_pools, daily_targets, used_recipe_ids,
\*                          day, max_protein_deviation_pct)
CallDailySolver ==
    /\ pc = "call"
    /\ \E out \in create_daily_plan_global(recipe_pools, daily_targets, used_recipe_ids,
                                           max_protein_deviation_pct,
                                           MAX_COMBINED_POOL_SIZE) :
          /\ daily_plan_result' = out.ret
          /\ solver_log' = out.log
          /\ solver_objects' \in HeldAtReturn(out.log)
    /\ pc' = "returned"
    /\ UNCHANGED << Profile, day, used_recipe_ids, weekly_plan, recipe_pools,
                    error_message, result, outcome >>

SolverNext == CallDailySolver

SolverSpec == SolverInit /\ [][SolverNext]_vars

(***************************************************************************)
(* A direct call of create_single_meal_resilient or of                     *)
(* heuristic_meal_selection                                                *)
(***************************************************************************)
MaxPoolSize == 3

\* the recipe_pool argument: any rows of the table, at most MaxPoolSize
MealPoolChoices == { P \in SUBSET AllIds : Cardinality(P) <= MaxPoolSize }

\* the meal_name argument; "Meal" is the default and has the default structure
MealNameChoices == { "Breakfast", "Lunch", "Dinner", "Meal" }

\* the meal_target_nutrients argument: a reachable and an unreachable
\* protein target (the values of AllRecipes divide exactly by both)
MealTargetChoices ==
    { [calories |-> 500, protein_g |-> 50, fat_g |-> 20, carbs_g |-> 50],
      [calories |-> 500, protein_g |-> 250, fat_g |-> 20, carbs_g |-> 50] }

\* initial_max_protein_deviation_pct: the default and a wider guard
InitialPctChoices == { 12, 30 }

MealInit ==
    /\ catalog = AllIds
    /\ primary_goal = "gain_muscle"
    /\ dietary_style = "balanced"
    /\ allergies = {}
    /\ number_of_days = 0
    /\ daily_targets \in { t \in TargetChoices : t.protein_g = 100 }
    /\ day = 0
    /\ used_recipe_ids = {}
    /\ weekly_plan = << >>
    /\ recipe_pools = NoPools
    /\ daily_plan_result = NoResult
    /\ solver_log = << >>
    /\ solver_objects = {}
    /\ error_message = NoError
    /\ result = << >>
    /\ outcome = "none"
    /\ max_protein_deviation_pct = NoGuard
    /\ meal_call \in { [recipe_pool |-> P, meal_target_nutrients |-> t, meal_name |-> m,
                         meal_structure |-> get_meal_structure(m),
                         initial_max_protein_deviation_pct |-> x] :
                            P \in MealPoolChoices, t \in MealTargetChoices,
                            m \in MealNameChoices, x \in InitialPctChoices }
    /\ pc \in { "relax", "heuristic" }
    /\ level = 0
    /\ attempts = << >>
    /\ meal_result = NoMealResult
    /\ pool_call = NoPoolCall

MealUnchanged ==
    UNCHANGED << catalog, primary_goal, dietary_style, number_of_days, daily_targets,
                 allergies, day, used_recipe_ids, weekly_plan, recipe_pools,
                 daily_plan_result, solver_log, solver_objects, error_message, result,
                 outcome, max_protein_deviation_pct, meal_call, pool_call >>

\* AttemptLevel going two levels up after a failed attempt
AttemptLevelSkipsLevel ==
    /\ pc = "relax"
    /\ level < RelaxationLevels
    /\ \E selected_recipes \in
           create_single_meal(meal_call.recipe_pool, meal_call.meal_target_nutrients,
                              LevelName(meal_call.meal_name, level),
                              CurrentStructure(level, meal_call.meal_structure),
                              CurrentGuard(level, meal_call.initial_max_protein_deviation_pct)) :
          /\ attempts' = Append(attempts, [level |-> level, by |-> "solver",
                                           ok |-> selected_recipes # NoRecipes])
          /\ IF selected_recipes # NoRecipes
             THEN /\ meal_result' = MealResult(selected_recipes[1], level,
                                               meal_call.meal_target_nutrients)
                  /\ pc' = "returned"
                  /\ level' = level
             ELSE /\ level' = level + 2
                  /\ UNCHANGED << meal_result, pc >>
    /\ MealUnchanged

\* one pass of the loop "for level in range(5)" of create_single_meal_resilient
AttemptLevel ==
    /\ pc = "relax"
    /\ level < RelaxationLevels
    /\ \E selected_recipes \in
           create_single_meal(meal_call.recipe_pool, meal_call.meal_target_nutrients,
                              LevelName(meal_call.meal_name, level),
                              CurrentStructure(level, meal_call.meal_structure),
                              CurrentGuard(level, meal_call.initial_max_protein_deviation_pct)) :
          /\ attempts' = Append(attempts, [level |-> level, by |-> "solver",
                                           ok |-> selected_recipes # NoRecipes])
          /\ IF selected_recipes # NoRecipes
             THEN /\ meal_result' = MealResult(selected_recipes[1], level,
                                               meal_call.meal_target_nutrients)
                  /\ pc' = "returned"
                  /\ level' = level
             ELSE /\ level' = level + 1
                  /\ UNCHANGED << meal_result, pc >>
    /\ MealUnchanged

\* HeuristicFallback returning None when the heuristic selects nothing
HeuristicFallbackNoneOnEmpty ==
    /\ pc = "relax"
    /\ level = RelaxationLevels
    /\ \E S \in heuristic_meal_selection(meal_call.recipe_pool,
                                          meal_call.meal_target_nutrients,
                                          meal_call.meal_name, meal_call.meal_structure) :
          meal_result' = IF S = {} THEN NoMealResult
                         ELSE MealResult(S, 4, meal_call.meal_target_nutrients)
    /\ attempts' = Append(attempts, [level |-> 4, by |-> "heuristic", ok |-> TRUE])
    /\ pc' = "returned"
    /\ UNCHANGED level
    /\ MealUnchanged

\* after the loop: "return heuristic_meal_selection(...)"
HeuristicFallback ==
    /\ pc = "relax"
    /\ level = RelaxationLevels
    /\ \E S \in heuristic_meal_selection(meal_call.recipe_pool,
                                          meal_call.meal_target_nutrients,
                                          meal_call.meal_name, meal_call.meal_structure) :
          meal_result' = MealResult(S, 4, meal_call.meal_target_nutrients)
    /\ attempts' = Append(attempts, [level |-> 4, by |-> "heuristic", ok |-> TRUE])
    /\ pc' = "returned"
    /\ UNCHANGED level
    /\ MealUnchanged

\* heuristic_meal_selection called on its own
CallHeuristic ==
    /\ pc = "heuristic"
    /\ \E S \in heuristic_meal_selection(meal_call.recipe_pool,
                                          meal_call.meal_target_nutrients,
                                          meal_call.meal_name, meal_call.meal_structure) :
          meal_result' = MealResult(S, 4, meal_call.meal_target_nutrients)
    /\ pc' = "returned"
    /\ UNCHANGED << level, attempts >>
    /\ MealUnchanged

MealNext ==
    \/ AttemptLevel
    \/ HeuristicFallback
    \/ CallHeuristic

MealSpec == MealInit /\ [][MealNext]_vars

\* the call runs on: a function that can take its next step takes it
MealLiveSpec == MealInit /\ [][MealNext]_vars /\ WF_vars(MealNext)

(***************************************************************************)
(* A direct call of create_daily_plan_global on pools whose merge exceeds  *)
(* the cap of the combined pool.  MAX_COMBINED_POOL_SIZE is 600 in the     *)
(* source; here the cap is scaled to the model catalog, and the pools have *)
(* no more (meal, tag) groups than the cap, as 600 exceeds the number of   *)
(* groups three meals and the tags of the catalog can form.                *)
(***************************************************************************)
MaxCombined == 8

ReducePoolChoices ==
    { [Breakfast |-> {1, 2, 3, 4}, Lunch |-> {5, 6, 9, 10}, Dinner |-> {7, 8, 11, 12}],
      [Breakfast |-> {1, 2, 3}, Lunch |-> {5, 6, 7, 9, 10}, Dinner |-> {5, 8, 13}],
      [Breakfast |-> {1, 2, 3}, Lunch |-> {5, 6, 7, 8, 9, 10}, Dinner |-> {5, 6}] }

ReduceInit ==
    /\ catalog = AllIds
    /\ primary_goal = "gain_muscle"
    /\ dietary_style = "balanced"
    /\ allergies = {}
    /\ number_of_days = 1
    /\ daily_targets \in TargetChoices
    /\ used_recipe_ids \in SolverUsedChoices
    /\ recipe_pools \in ReducePoolChoices
    /\ max_protein_deviation_pct \in SolverPctChoices
    /\ pc = "call_capped"
    /\ day = 1
    /\ weekly_plan = << >>
    /\ daily_plan_result = NoResult
    /\ solver_log = << >>
    /\ solver_objects = {}
    /\ error_message = NoError
    /\ result = << >>
    /\ outcome = "none"
    /\ MealIdle
    /\ pool_call = NoPoolCall

\* create_daily_plan_global(recipe_pools, daily_targets, used_recipe_ids,
\*                          day, max_protein_deviation_pct), the cap scaled
CallDailySolverCapped ==
    /\ pc = "call_capped"
    /\ \E out \in create_daily_plan_global(recipe_pools, daily_targets, used_recipe_ids,
                                           max_protein_deviation_pct, MaxCombined) :
          /\ daily_plan_result' = out.ret
          /\ solver_log' = out.log
          /\ solver_objects' \in HeldAtReturn(out.log)
    /\ pc' = "returned"
    /\ UNCHANGED << Profile, day, used_recipe_ids, weekly_plan, recipe_pools,
                    error_message, result, outcome >>

ReduceNext == CallDailySolverCapped

ReduceSpec == ReduceInit /\ [][ReduceNext]_vars

(***************************************************************************)
(* A direct call of construct_funnel_pool                                  *)
(***************************************************************************)
\* the max_pool_size argument: the default of 500 and caps of the size of
\* the model catalog
PoolSizeChoices == { 0, 1, 2, 3, MAX_RECIPES_PER_MEAL_POOL }

\* the used_recipe_ids argument of the call
PoolUsedChoices == { {}, {5, 9}, {1, 2, 3} }

PoolInit ==
    /\ catalog \in { AllIds \ r : r \in RemovedChoices }
    /\ \E p \in ProfileChoices :
          /\ primary_goal = p.primary_goal
          /\ dietary_style = p.dietary_style
    /\ allergies = {}
    /\ number_of_days = 1
    /\ daily_targets \in { t \in TargetChoices : t.protein_g = 100 }
    /\ used_recipe_ids \in PoolUsedChoices
    /\ pool_call \in { [meal_name |-> m,
                         primary_cluster |-> map_goal_to_cluster(primary_goal, dietary_style),
                         max_pool_size |-> n] :
                            m \in SeqRange(MealNames), n \in PoolSizeChoices }
    /\ pc = "pool"
    /\ day = 1
    /\ weekly_plan = << >>
    /\ recipe_pools = NoPools
    /\ daily_plan_result = NoResult
    /\ solver_log = << >>
    /\ solver_objects = {}
    /\ error_message = NoError
    /\ result = << >>
    /\ outcome = "none"
    /\ max_protein_deviation_pct = NoGuard
    /\ MealIdle

\* construct_funnel_pool(meal_name, meal_structure, primary_cluster,
\*                       meal_target_nutrients, used_recipe_ids, max_pool_size)
CallFunnelPool ==
    /\ pc = "pool"
    /\ \E pool \in construct_funnel_pool(catalog, pool_call.meal_name,
                                          pool_call.primary_cluster, used_recipe_ids,
                                          pool_call.max_pool_size) :
          recipe_pools' = [NoPools EXCEPT ![pool_call.meal_name] = pool]
    /\ pc' = "returned"
    /\ UNCHANGED << Profile, day, used_recipe_ids, weekly_plan, daily_plan_result,
                    solver_log, solver_objects, error_message, result, outcome >>

PoolNext == CallFunnelPool

PoolSpec == PoolInit /\ [][PoolNext]_vars

\* number of recipes in the lists of a day plan
DaySize(d) == Len(d.Breakfast) + Len(d.Lunch) + Len(d.Dinner)

(***************************************************************************)
(* Properties                                                              *)
(***************************************************************************)
\* the ids of a plan, day after day
RECURSIVE PlanIds(_, _)
PlanIds(plan, k) ==
    IF k > Len(plan) THEN << >> ELSE DayIdList(plan[k]) \o PlanIds(plan, k + 1)

NoDuplicates(q) == Len(q) = Cardinality(SeqRange(q))

\* number of entries of a meal list whose tag is in tags
TagCount(list, tags) == Cardinality({ k \in 1..Len(list) : list[k].meal_type \in tags })

\* C1: a plan returned from the optimizer path holds no recipe id twice,
\* neither within a day nor in two days; the same holds of the days the
\* run has accepted so far, which are the plan it returns.
C1_OptimizerPlanUnique ==
    /\ outcome = "optimizer" => NoDuplicates(PlanIds(result, 1))
    /\ NoDuplicates(PlanIds(weekly_plan, 1))

C1_Witness ==
    /\ outcome = "optimizer"
    /\ Len(result) = 2
    /\ Len(PlanIds(result, 1)) >= 12

\* C2: every run ends, and ends with a plan of exactly number_of_days
\* entries, each with a Breakfast, a Lunch and a Dinner list, whatever
\* failed on the way; there is no state from which the run cannot go on.
C2_Returned ==
    pc = "done" =>
       /\ outcome \in {"optimizer", "fallback"}
       /\ Len(result) = number_of_days
       /\ \A k \in 1..Len(result) :
             /\ DOMAIN result[k] = SeqRange(MealNames)
             /\ \A m \in SeqRange(MealNames) :
                   DOMAIN result[k][m] = 1..Len(result[k][m])

\* every step the run has to take next can be taken
C2_CanGoOn ==
    /\ pc \in {"start", "day_loop", "solve", "validate", "fallback", "done"}
    /\ pc = "day_loop" /\ day <= number_of_days =>
          \A m \in SeqRange(MealNames) :
             construct_funnel_pool(catalog, m,
                                   map_goal_to_cluster(primary_goal, dietary_style),
                                   used_recipe_ids, MAX_RECIPES_PER_MEAL_POOL) # {}
    /\ pc = "solve" =>
          create_daily_plan_global(recipe_pools, daily_targets, used_recipe_ids,
                                   Guard(ORCHESTRATOR_PROTEIN_PCT),
                                   MAX_COMBINED_POOL_SIZE) # {}
    /\ pc = "fallback" => get_default_plan(catalog, primary_goal, number_of_days) # {}

C2_AlwaysCompletePlan == C2_Returned /\ C2_CanGoOn

C2_Witness ==
    /\ pc = "done"
    /\ outcome = "fallback"
    /\ error_message = [kind |-> "Daily global optimization failed", day |-> 2]
    /\ Len(result) = 2

\* C3: every day plan of create_daily_plan_global has a Breakfast of
\* exactly 1 Breakfast recipe and 1 Fruit or Drink, a Lunch and a Dinner of
\* exactly 1 Main Course and 1 to 2 complementary dishes, nothing else, and
\* at most 1 Dessert in Dinner.
C3_Valid(d) ==
    /\ TagCount(d.Breakfast, {"Breakfast"}) = 1
    /\ TagCount(d.Breakfast, {"Fruit", "Drink"}) = 1
    /\ Len(d.Breakfast) = 2
    /\ TagCount(d.Lunch, {"Main Course"}) = 1
    /\ TagCount(d.Lunch, {"Side Dish", "Salad", "Soup"}) \in 1..2
    /\ Len(d.Lunch) = 1 + TagCount(d.Lunch, {"Side Dish", "Salad", "Soup"})
    /\ TagCount(d.Dinner, {"Main Course"}) = 1
    /\ TagCount(d.Dinner, {"Side Dish", "Salad", "Soup", "Dessert"}) \in 1..2
    /\ Len(d.Dinner) = 1 + TagCount(d.Dinner, {"Side Dish", "Salad", "Soup", "Dessert"})
    /\ TagCount(d.Dinner, {"Dessert"}) <= 1

C3_EveryDayPlanValid ==
    pc = "validate" => C3_Valid(DayPlan(daily_plan_result))

C5_UsedSetStep ==
    LET ids == SeqRange(DayIdList(DayPlan(daily_plan_result)))
    IN  /\ pc = "start" /\ pc' # "done" => used_recipe_ids' = {}
        /\ pc # "start" /\ pc' # "done" => used_recipe_ids \subseteq used_recipe_ids'
        /\ used_recipe_ids' # used_recipe_ids /\ pc' # "done" =>
              /\ pc = "validate"
              /\ ~InterDayRepetition(DayPlan(daily_plan_result), used_recipe_ids)
              /\ ~IntraDayRepetition(DayPlan(daily_plan_result))
        /\ pc = "validate" /\ pc' = "day_loop" =>
              used_recipe_ids' = used_recipe_ids \cup ids
        /\ pc' = "validate" =>
              SeqRange(DayIdList(DayPlan(daily_plan_result'))) \cap used_recipe_ids' = {}

C5_UsedSetOnlyGrows == (used_recipe_ids = {}) /\ [][C5_UsedSetStep]_vars

C5_Witness ==
    /\ pc = "validate"
    /\ day = 2
    /\ Cardinality(used_recipe_ids) >= 6

\* C6: a run that fails on some day returns exactly a plan of
\* get_default_plan for the goal and number_of_days of the request and no
\* day solved before the failure is kept; a run without failure returns
\* exactly the days the solver produced, number_of_days of them.
C6_Step ==
    /\ pc = "validate" /\ pc' = "day_loop" =>
          weekly_plan' = Append(weekly_plan, DayPlan(daily_plan_result))
    /\ pc # "validate" /\ pc' # "done" => weekly_plan' = weekly_plan
    /\ error_message' # error_message => pc' = "fallback"
    /\ pc = "fallback" =>
          /\ error_message # NoError
          /\ outcome' = "fallback"
          /\ result' \in get_default_plan(catalog, primary_goal, number_of_days)
    /\ pc # "fallback" /\ pc' = "done" =>
          /\ error_message = NoError
          /\ outcome' = "optimizer"
          /\ result' = weekly_plan
          /\ Len(weekly_plan) = number_of_days

C6_AllOrNothing == [][C6_Step]_vars

C6_Witness ==
    /\ pc = "fallback"
    /\ number_of_days = 2
    /\ Len(weekly_plan) = 1
    /\ error_message.day = 2

\* C7: every day of a returned default plan has a Breakfast of exactly 1
\* Breakfast recipe and 1 Fruit or Drink and a Lunch and a Dinner of exactly
\* 1 Main Course and 1 to 2 complementary dishes, whatever the template.
C7_Valid(d) ==
    /\ TagCount(d.Breakfast, {"Breakfast"}) = 1
    /\ TagCount(d.Breakfast, {"Fruit", "Drink"}) = 1
    /\ TagCount(d.Lunch, {"Main Course"}) = 1
    /\ TagCount(d.Lunch, {"Side Dish", "Salad", "Soup"}) \in 1..2
    /\ TagCount(d.Dinner, {"Main Course"}) = 1
    /\ TagCount(d.Dinner, {"Side Dish", "Salad", "Soup", "Dessert"}) \in 1..2

C7_DefaultPlanValid ==
    outcome = "fallback" => \A k \in 1..Len(result) : C7_Valid(result[k])

\* relaxation level 4 fails for a meal when heuristic_meal_selection can
\* return no recipe for its pool
Level4Fails(meal_name) ==
    {} \in heuristic_meal_selection(recipe_pools[meal_name], daily_targets, meal_name,
                                    get_meal_structure(meal_name))

\* C8: a day the solver reports Infeasible makes the run fall back to the
\* default plan only if relaxation level 4 has failed too; otherwise the
\* run goes on with the day.
C8_FallbackOnlyAfterLevel4 ==
    ( /\ pc = "fallback"
      /\ error_message.kind = "Daily global optimization failed"
      /\ solver_log # << >>
      /\ solver_log[1] = "Infeasible" )
    => \E m \in SeqRange(MealNames) : Level4Fails(m)

\* the tag a meal cannot do without
MandatoryTag(meal_name) == IF meal_name = "Breakfast" THEN "Breakfast" ELSE "Main Course"

\* no unused recipe of the tag, neither in the cluster nor in the catalog
NoEligible(meal_type) ==
    /\ PrimaryRows(catalog, map_goal_to_cluster(primary_goal, dietary_style),
                   used_recipe_ids, meal_type) = {}
    /\ ExpandedRows(catalog, used_recipe_ids, meal_type) = {}

RequiredTagMissing == \E m \in SeqRange(MealNames) : NoEligible(MandatoryTag(m))

\* C9: a day for which a required tag has no eligible recipe in the cluster
\* and none in the catalog is aborted, and the run returns the default plan
\* of the goal's template with number_of_days days.
C9_Step ==
    /\ pc = "day_loop" /\ day <= number_of_days /\ RequiredTagMissing =>
          pc' \in {"solve", "fallback"}
    /\ pc = "solve" /\ RequiredTagMissing =>
          pc' = "fallback" /\ error_message'.day = day
    /\ pc = "fallback" /\ day >= 1 /\ RequiredTagMissing =>
          /\ pc' = "done"
          /\ outcome' = "fallback"
          /\ Len(result') = number_of_days
          /\ result' \in DefaultPlansFrom(catalog, TemplateOf(primary_goal), {}, 1,
                                          number_of_days)

C9_MissingRequiredTagFallsBack == [][C9_Step]_vars

C9_Witness ==
    /\ pc = "fallback"
    /\ day >= 1
    /\ RequiredTagMissing
    /\ recipe_pools["Breakfast"] # {}
    /\ error_message.kind = "Daily global optimization failed"

\* C10: construct_funnel_pool returns the empty pool whenever the required
\* tag of the meal has no eligible recipe in the cluster and none after
\* widening, also when optional tags of the meal have rows.
C10_EmptyPoolWhenRequiredTagMissing ==
    \A m \in SeqRange(MealNames) :
       (pc = "day_loop" /\ day <= number_of_days /\ NoEligible(MandatoryTag(m)))
       => construct_funnel_pool(catalog, m,
                                map_goal_to_cluster(primary_goal, dietary_style),
                                used_recipe_ids, MAX_RECIPES_PER_MEAL_POOL) = { {} }

(***************************************************************************)
(* C11: the second program after an Infeasible first solve                 *)
(***************************************************************************)
\* the states right after the call of create_daily_plan_global returned
C11_AfterSolve ==
    \/ pc = "validate"
    \/ pc = "fallback" /\ error_message.kind = "Daily global optimization failed"

\* the ids of the plan the call returned
C11_Selected == SeqRange(DayIdList(DayPlan(daily_plan_result)))

\* C11: when the first solve of a day is Infeasible the call solves exactly
\* one more program, the same candidates, objective, structural constraints
\* and 6-8 count without the protein guard, and returns an Optimal_Relaxed
\* optimum of that program if it is Optimal and None otherwise; an Optimal
\* first solve is never followed by a second solve
C11_RetryWithoutGuardOnInfeasible ==
    C11_AfterSolve /\ solver_log # << >> =>
        \E all \in ReducedPools(recipe_pools, used_recipe_ids, MAX_COMBINED_POOL_SIZE) :
            /\ solver_log[1] = "Optimal" =>
                  Len(solver_log) = 1 /\ daily_plan_result.status = "Optimal"
            /\ solver_log[1] = "Infeasible" =>
                  /\ Len(solver_log) = 2
                  /\ FeasibleSelections(recipe_pools, all, daily_targets,
                                        Guard(ORCHESTRATOR_PROTEIN_PCT)) = {}
                  /\ solver_log[2] = "Infeasible" =>
                         { S \in MealSelections(recipe_pools, all) : TotalConstraint(S) } = {}
                  /\ IF solver_log[2] = "Optimal"
                     THEN /\ daily_plan_result.status = "Optimal_Relaxed"
                          /\ C11_Selected \in
                                 OptimalSelections(recipe_pools, all, daily_targets, NoGuard)
                     ELSE IsNone(daily_plan_result)

\* a day whose first solve was Infeasible and whose second solve was Optimal
C11_Witness ==
    /\ pc = "validate"
    /\ solver_log = << "Infeasible", "Optimal" >>
    /\ daily_plan_result.status = "Optimal_Relaxed"

(***************************************************************************)
(* C12: a solver exception or timeout in the first solve                   *)
(***************************************************************************)
\* C12: a first solve that ends neither Optimal nor Infeasible (a solver
\* exception or a timeout) is followed by the retry without the protein
\* guard before the day is reported as failed
C12_ErrorIsRetried ==
    C11_AfterSolve /\ solver_log # << >> /\ solver_log[1] = "Error" =>
        Len(solver_log) = 2

(***************************************************************************)
(* C13: the protein guard and the reported protein deviation               *)
(***************************************************************************)
\* the total protein of the selected recipes, as the plan reports it
C13_Actual == daily_plan_result.actual_nutrients.protein_g

\* C13: a plan returned with status Optimal by a call with a protein guard
\* of X percent and a positive protein target has its protein within X
\* percent of the target, and its reported protein deviation_pct is
\* abs(actual - target) / target * 100
C13_OptimalWithinGuard ==
    (/\ pc = "returned"
     /\ max_protein_deviation_pct # NoGuard
     /\ daily_targets.protein_g > 0
     /\ daily_plan_result.status = "Optimal") =>
        LET X == max_protein_deviation_pct[1]
            target == daily_targets.protein_g
            reported == daily_plan_result.deviations["protein_g"].deviation_pct
        IN  /\ Abs(C13_Actual - target) * 100 <= target * X
            /\ reported.num * target = Abs(C13_Actual - target) * 100 * reported.den

\* an Optimal plan under a guard of 5 percent whose protein is off target
C13_Witness ==
    /\ pc = "returned"
    /\ max_protein_deviation_pct = Guard(5)
    /\ daily_plan_result.status = "Optimal"
    /\ C13_Actual # daily_targets.protein_g

(***************************************************************************)
(* C14: what a pool of construct_funnel_pool never holds                   *)
(***************************************************************************)
\* the rows of a pool that come from the widened query: another cluster
\* than the primary one
C14_Widened(pool) ==
    { i \in pool :
          AllRecipes[i].cluster # map_goal_to_cluster(primary_goal, dietary_style) }

\* C14: no pool built by construct_funnel_pool holds an id of the
\* Used-Recipe Set or a recipe tagged Unknown, whether the row comes from
\* the primary cluster or from the widened query
C14_PoolExcludesUsedAndUnknown ==
    \A m \in SeqRange(MealNames) : \A i \in recipe_pools[m] :
        i \notin used_recipe_ids /\ MealType(i) # "Unknown"

\* second-day pools that hold primary-cluster rows and widened rows while
\* an Unknown row and used rows of other clusters are in the catalog
C14_Witness ==
    /\ pc = "solve"
    /\ \E i \in catalog : MealType(i) = "Unknown"
    /\ \E i \in used_recipe_ids :
          AllRecipes[i].cluster # map_goal_to_cluster(primary_goal, dietary_style)
    /\ \A m \in SeqRange(MealNames) :
          /\ C14_Widened(recipe_pools[m]) # {}
          /\ recipe_pools[m] \ C14_Widened(recipe_pools[m]) # {}

(***************************************************************************)
(* C15: allergy and dislike keywords                                       *)
(***************************************************************************)
C15_Excluded(i) == \E keyword \in allergies : NameContains(i, keyword)

\* C15: no recipe whose name contains an allergy or dislike keyword of the
\* request is in a candidate pool built for the run or in a day of the
\* plan returned from the optimizer path
C15_NoExcludedKeywordInPoolsOrPlan ==
    /\ \A m \in SeqRange(MealNames) : \A i \in recipe_pools[m] : ~C15_Excluded(i)
    /\ outcome = "optimizer" => \A i \in SeqRange(PlanIds(result, 1)) : ~C15_Excluded(i)

(***************************************************************************)
(* C16: the order of the relaxation levels                                 *)
(***************************************************************************)
\* the levels in the order they are to be tried: the five passes of the
\* loop, then the heuristic, which reports level 4 as well
C16_LevelOrder == << 0, 1, 2, 3, 4, 4 >>

\* the deviations realized by a set of recipes
C16_Realized(S) ==
    [n \in NutrientKeys |->
        [target |-> meal_call.meal_target_nutrients[n],
         actual |-> Total(S, IF n = "calories" THEN "avg_calories" ELSE "avg_" \o n),
         deviation_pct |->
             Ratio(Abs(Total(S, IF n = "calories" THEN "avg_calories" ELSE "avg_" \o n)
                       - meal_call.meal_target_nutrients[n]) * 100,
                   meal_call.meal_target_nutrients[n])]]

\* C16: create_single_meal_resilient tries the relaxation levels 0, 1, 2, 3,
\* 4 in this order without skipping one, makes no attempt after an attempt
\* that succeeded, and returns the result of the first successful attempt
\* with relaxation_level equal to its level and with the realized deviations
C16_LevelsInOrderStopAtFirstSuccess ==
    /\ Len(attempts) <= Len(C16_LevelOrder)
    /\ \A k \in 1..Len(attempts) :
          /\ attempts[k].level = C16_LevelOrder[k]
          /\ k < Len(attempts) => ~attempts[k].ok
    /\ pc = "relax" => \A k \in 1..Len(attempts) : ~attempts[k].ok
    /\ (pc = "returned" /\ attempts # << >>) =>
          /\ attempts[Len(attempts)].ok
          /\ meal_result.relaxation_level = attempts[Len(attempts)].level
          /\ meal_result.deviations = C16_Realized(meal_result.recipes)

\* a call that returned at level 2 after the attempts at levels 0 and 1 failed
C16_Witness ==
    /\ pc = "returned"
    /\ Len(attempts) = 3
    /\ meal_result.relaxation_level = 2
    /\ meal_result.recipes # {}

(***************************************************************************)
(* C17: heuristic_meal_selection on a pool with every required tag         *)
(***************************************************************************)
\* the required tags of the meal structure of the call
C17_Required == SeqRange(RequiredTypes(meal_call.meal_structure))

\* the pool holds at least one candidate for every required tag
C17_PoolHasRequiredTags ==
    \A mt \in C17_Required : TypeIndices(meal_call.recipe_pool, mt) # {}

\* the value in meal_result comes from heuristic_meal_selection
C17_FromHeuristic ==
    /\ pc = "returned"
    /\ attempts # << >> => attempts[Len(attempts)].by = "heuristic"

C17_DirectWitness ==
    /\ pc = "returned"
    /\ attempts = << >>
    /\ Cardinality(C17_Required) = 2
    /\ C17_PoolHasRequiredTags
    /\ Cardinality(meal_call.recipe_pool) = 3

(***************************************************************************)
(* C18: recipe ids of the default plan                                     *)
(***************************************************************************)
\* C18: the plan returned by the fallback holds no recipe id twice, neither
\* in two days nor within a day (in particular not as the Lunch main and
\* the Dinner main of one day), real ids and negative ids alike
C18_DefaultPlanUnique ==
    outcome = "fallback" => NoDuplicates(PlanIds(result, 1))

(***************************************************************************)
(* C19: cleanup of the solver objects                                      *)
(***************************************************************************)
\* C19: whatever way create_daily_plan_global leaves after the problem was
\* created, the cleanup of its finally block has run when it returns, and
\* the solve of a day never starts while a solver object of an earlier day,
\* of its first program or of its relaxed retry, is still held
C19_CleanupBeforeNextSolve ==
    /\ (C11_AfterSolve /\ solver_log # << >>) => solver_objects \cap FinallyDeleted = {}
    /\ pc = "solve" => solver_objects = {}

\* the solve of day 2 about to start after a day 1 that needed the relaxed
\* retry
C19_Witness ==
    /\ pc = "solve"
    /\ day = 2
    /\ solver_log = << "Infeasible", "Optimal" >>
    /\ solver_objects = {}

(***************************************************************************)
(* C20: the pool merge                                                     *)
(***************************************************************************)
\* the ids of the merged pool of the call
C20_Merged == MergedIds(recipe_pools, used_recipe_ids)

\* the meals, in priority order, whose input pool holds the id
C20_Holders(i) == { k \in 1..Len(MealNames) : i \in recipe_pools[MealNames[k]] }

\* the first of Breakfast, Lunch, Dinner whose input pool holds the id
C20_FirstHolder(i) ==
    MealNames[CHOOSE k \in C20_Holders(i) : \A j \in C20_Holders(i) : k <= j]

\* C20: after the merge every id of the merged pool is assigned to exactly
\* one meal, the first of Breakfast, Lunch, Dinner whose input pool holds
\* it, and the merged pool holds no id twice and no id of the Used-Recipe
\* Set; a returned plan lists every recipe under the meal it was assigned to
C20_MergeAssignsFirstPool ==
    /\ C20_Merged \cap used_recipe_ids = {}
    /\ \A i \in C20_Merged :
          /\ C20_Holders(i) # {}
          /\ \A m \in SeqRange(MealNames) :
                i \in Assigned(recipe_pools, C20_Merged, m) <=> m = C20_FirstHolder(i)
    /\ Cardinality(C20_Merged)
          = Cardinality(Assigned(recipe_pools, C20_Merged, "Breakfast"))
            + Cardinality(Assigned(recipe_pools, C20_Merged, "Lunch"))
            + Cardinality(Assigned(recipe_pools, C20_Merged, "Dinner"))
    /\ pc = "returned" =>
          \A m \in SeqRange(MealNames) : \A i \in SeqIds(daily_plan_result[m]) :
              i \in C20_Merged /\ m = C20_FirstHolder(i)

\* a plan returned from pools that share an id and hold a used id
C20_Witness ==
    /\ pc = "returned"
    /\ ~IsNone(daily_plan_result)
    /\ \E i \in C20_Merged : Cardinality(C20_Holders(i)) > 1
    /\ \E m \in SeqRange(MealNames) : recipe_pools[m] \cap used_recipe_ids # {}
    /\ \E i \in SeqIds(daily_plan_result.Lunch) : i \in recipe_pools["Dinner"]

(***************************************************************************)
(* C21: the mandatory candidates after the priority merge                  *)
(***************************************************************************)
\* the input pool of a meal holds an unused recipe with the tag
C21_PoolHasUnused(meal_name, meal_type) ==
    \E i \in recipe_pools[meal_name] \ used_recipe_ids : MealType(i) = meal_type

\* C21: when the Breakfast pool holds an unused Breakfast recipe and the
\* Lunch pool and the Dinner pool each hold an unused Main Course, every
\* meal has a mandatory candidate after the merge, the call does not stop
\* for a missing Dinner Main Course, and it returns a plan with status
\* Optimal or Optimal_Relaxed
C21_MergeKeepsMandatoryCandidates ==
    (/\ pc \in {"call", "returned"}
     /\ C21_PoolHasUnused("Breakfast", "Breakfast")
     /\ C21_PoolHasUnused("Lunch", "Main Course")
     /\ C21_PoolHasUnused("Dinner", "Main Course"))
    => LET all == MergedIds(recipe_pools, used_recipe_ids)
       IN  /\ breakfast_items(recipe_pools, all) # {}
           /\ lunch_main(recipe_pools, all) # {}
           /\ dinner_main(recipe_pools, all) # {}
           /\ PreSolveCheck(recipe_pools, all) # "No Main Courses for Dinner"
           /\ pc = "returned" =>
                 daily_plan_result.status \in {"Optimal", "Optimal_Relaxed"}

(***************************************************************************)
(* C22: relaxation level 0                                                 *)
(***************************************************************************)
\* number of recipes of a returned meal whose tag is in tags
C22_Tagged(tags) == Cardinality({ i \in meal_result.recipes : MealType(i) \in tags })

\* C22: a result of create_single_meal_resilient with relaxation_level 0
\* has the full structure of the meal and its protein within the initial
\* guard: a Breakfast is 1 Breakfast recipe and 1 Fruit or Drink, a Lunch or
\* a Dinner is 1 Main Course and 1 or 2 of Side Dish, Salad and Soup; it is
\* never the mandatory recipe alone
C22_LevelZeroFullStructure ==
    (/\ pc = "returned"
     /\ attempts # << >>
     /\ meal_result.relaxation_level = 0)
    => /\ MealProteinGuard(meal_result.recipes, meal_call.meal_target_nutrients,
                           Guard(meal_call.initial_max_protein_deviation_pct))
       /\ meal_call.meal_name = "Breakfast" =>
             /\ C22_Tagged({"Breakfast"}) = 1
             /\ C22_Tagged({"Fruit", "Drink"}) = 1
             /\ Cardinality(meal_result.recipes) = 2
       /\ meal_call.meal_name \in {"Lunch", "Dinner"} =>
             /\ C22_Tagged({"Main Course"}) = 1
             /\ C22_Tagged({"Side Dish", "Salad", "Soup"}) \in 1..2
       /\ Cardinality(meal_result.recipes) > 1

(***************************************************************************)
(* C23: relaxation level 4                                                 *)
(***************************************************************************)
\* the attempts of the call in which create_single_meal went as far as
\* prob.solve: it returned at none of the checks that precede the solve
C23_SolverAttempts ==
    { k \in 1..Len(attempts) :
        /\ attempts[k].by = "solver"
        /\ Cardinality(meal_call.recipe_pool) >= MIN_RECIPES_NEEDED
        /\ ~MissingRows(meal_call.recipe_pool,
                        LevelName(meal_call.meal_name, attempts[k].level),
                        CurrentStructure(attempts[k].level, meal_call.meal_structure)) }

\* C23: a result of create_single_meal_resilient that records
\* relaxation_level 4 was produced by heuristic_meal_selection, and one call
\* runs the solver at most 4 times, for the levels 0 to 3
C23_LevelFourIsHeuristic ==
    /\ Cardinality(C23_SolverAttempts) <= 4
    /\ \A k \in C23_SolverAttempts : attempts[k].level \in 0..3
    /\ (pc = "returned" /\ attempts # << >> /\ meal_result.relaxation_level = 4)
          => attempts[Len(attempts)].by = "heuristic"

(***************************************************************************)
(* C24: the levels are progressively looser                                *)
(***************************************************************************)
\* the selections that satisfy the program create_single_meal builds at a
\* level of the call
C24_FeasibleAt(lvl) ==
    IF \/ Cardinality(meal_call.recipe_pool) < MIN_RECIPES_NEEDED
       \/ MissingRows(meal_call.recipe_pool, LevelName(meal_call.meal_name, lvl),
                      CurrentStructure(lvl, meal_call.meal_structure))
    THEN {}
    ELSE { S \in SUBSET meal_call.recipe_pool :
             /\ StructuralConstraints(meal_call.recipe_pool,
                                      LevelName(meal_call.meal_name, lvl),
                                      CurrentStructure(lvl, meal_call.meal_structure), S)
             /\ MealProteinGuard(S, meal_call.meal_target_nutrients,
                                 CurrentGuard(lvl, meal_call.initial_max_protein_deviation_pct)) }

\* C24: for every level k of 0..3 and every initial protein tolerance, a
\* selection that is feasible at level k is feasible at level k + 1
C24_LevelsProgressivelyLooser ==
    pc \in {"relax", "returned"} =>
        \A k \in 0..3 : C24_FeasibleAt(k) \subseteq C24_FeasibleAt(k + 1)

(***************************************************************************)
(* C25: the two uniqueness checks of the orchestrator never fire           *)
(***************************************************************************)
C25_ViolationKinds ==
    { "Inter-day recipe repetition detected", "Intra-day recipe repetition detected" }

\* C25: with the pools of every day built by construct_funnel_pool against
\* the current Used-Recipe Set and the day plan returned by
\* create_daily_plan_global, no run of generate_full_meal_plan takes the
\* inter-day or the intra-day repetition branch, on any day
C25_ViolationBranchesUnreachable ==
    /\ error_message.kind \notin C25_ViolationKinds
    /\ pc = "validate" =>
          /\ ~InterDayRepetition(DayPlan(daily_plan_result), used_recipe_ids)
          /\ ~IntraDayRepetition(DayPlan(daily_plan_result))

\* the checks are passed on the second day, with a non-empty Used-Recipe Set
\* and with a Lunch and a Dinner pool that share a recipe
C25_Witness ==
    /\ pc = "validate"
    /\ day = 2
    /\ used_recipe_ids # {}
    /\ recipe_pools["Lunch"] \cap recipe_pools["Dinner"] # {}
    /\ ~InterDayRepetition(DayPlan(daily_plan_result), used_recipe_ids)
    /\ ~IntraDayRepetition(DayPlan(daily_plan_result))

(***************************************************************************)
(* C26: the complementary dishes of Dinner                                 *)
(***************************************************************************)
\* C26: in every day plan create_daily_plan_global returns, Dinner holds
\* 1 or 2 recipes tagged Side Dish, Salad or Soup; a Dessert is not counted,
\* so a Dinner of a Main Course and a Dessert alone is never returned
C26_DinnerComplementaryWithoutDessert ==
    (pc = "returned" /\ ~IsNone(daily_plan_result)) =>
        /\ TagCount(daily_plan_result.Dinner, {"Side Dish", "Salad", "Soup"}) \in 1..2
        /\ ~(/\ Len(daily_plan_result.Dinner) = 2
             /\ TagCount(daily_plan_result.Dinner, {"Main Course"}) = 1
             /\ TagCount(daily_plan_result.Dinner, {"Dessert"}) = 1)

(***************************************************************************)
(* C27: the returned lists and the reported nutrients                      *)
(***************************************************************************)
\* the ids of the three returned lists
C27_Listed == SeqRange(DayIdList(DayPlan(daily_plan_result)))

\* C27: in every result of create_daily_plan_global each selected recipe is
\* in exactly one of the lists Breakfast, Lunch and Dinner, so that no id is
\* listed twice and the reported actual_nutrients and deviations are the
\* sums over the recipes of the three lists, whatever the input pools
C27_ReportedNutrientsAreOfTheLists ==
    (pc = "returned" /\ ~IsNone(daily_plan_result)) =>
        /\ NoDuplicates(DayIdList(DayPlan(daily_plan_result)))
        /\ daily_plan_result.actual_nutrients = ActualNutrients(C27_Listed)
        /\ daily_plan_result.deviations
              = Deviations(ActualNutrients(C27_Listed), daily_targets)

(***************************************************************************)
(* C28: the size cap of construct_funnel_pool                              *)
(***************************************************************************)
\* C28: the pool construct_funnel_pool returns never holds more than
\* max_pool_size recipes, whatever max_pool_size and the catalog are, also
\* when the rows of the required tag alone exceed the cap
C28_PoolWithinMaxPoolSize ==
    (pc = "returned" /\ pool_call # NoPoolCall) =>
        Cardinality(recipe_pools[pool_call.meal_name]) <= pool_call.max_pool_size

(***************************************************************************)
(* C29: the stratified downsampling of the merged pool                     *)
(***************************************************************************)
\* the merged pool of the call, before the downsampling
C29_Merged == MergedIds(recipe_pools, used_recipe_ids)

\* the pools the downsampling can leave
C29_Reduced == ReducedPools(recipe_pools, used_recipe_ids, MaxCombined)

\* C29: when the merged pool exceeds the cap, the downsampling leaves at
\* most the cap, only ids of the merged pool, each with the meal it was
\* assigned to, and at least one recipe of every (meal, tag) group that had
\* one, so that a required tag never loses its last candidate
C29_DownsamplingKeepsEveryGroup ==
    (pc \in {"call_capped", "returned"} /\ Cardinality(C29_Merged) > MaxCombined) =>
        \A red \in C29_Reduced :
            /\ Cardinality(red) <= MaxCombined
            /\ red \subseteq C29_Merged
            /\ \A m \in SeqRange(MealNames) :
                  Assigned(recipe_pools, red, m)
                      = Assigned(recipe_pools, C29_Merged, m) \cap red
            /\ \A key \in MealTypeGroups(recipe_pools, C29_Merged) :
                  GroupRows(recipe_pools, red, key) # {}
            /\ MealTypeGroups(recipe_pools, red) = MealTypeGroups(recipe_pools, C29_Merged)

\* a plan is returned by a call whose merged pool was over the cap and was
\* cut: a group had more rows than the downsampling keeps
C29_Witness ==
    /\ pc = "returned"
    /\ Cardinality(C29_Merged) > MaxCombined
    /\ \E red \in C29_Reduced : Cardinality(red) < Cardinality(C29_Merged)
    /\ ~IsNone(daily_plan_result)
    /\ SeqRange(DayIdList(DayPlan(daily_plan_result))) \subseteq C29_Merged

(***************************************************************************)
(* C30: create_single_meal_resilient ends and returns a dictionary         *)
(***************************************************************************)
\* the attempts of the call made by the solver and by the heuristic
C30_By(who) == { k \in 1..Len(attempts) : attempts[k].by = who }

\* at most 5 solver attempts, then at most one heuristic pass, and the value
\* returned is a result dictionary, never None
C30_BoundedAndReturnsDict ==
    /\ pc \in {"relax", "heuristic", "returned"}
    /\ Cardinality(C30_By("solver")) <= 5
    /\ Cardinality(C30_By("heuristic")) <= 1
    /\ \A k \in C30_By("heuristic") : k = Len(attempts) /\ pc = "returned"
    /\ pc = "relax" => level = Len(attempts) /\ level <= RelaxationLevels
    /\ pc = "returned" =>
          /\ meal_result # NoMealResult
          /\ DOMAIN meal_result = {"recipes", "relaxation_level", "deviations"}
          /\ meal_result.relaxation_level \in 0..4
          /\ meal_result.recipes \subseteq meal_call.recipe_pool

====
